---- MODULE Spec2Model ----
(***************************************************************************)
(* Model of kyoon-RareHiggsRun3:                                           *)
(*   - kytools.rootpdf.FittingTool (constructor validation, the PDF and    *)
(*     dataset registries, the bounded retry loop of fit);                 *)
(*   - JPsiCC.analysis.rdfdefines (add_cut_flow, filter_rdf and the        *)
(*     rdf_def_* selection stages with their cut-flow bookkeeping).        *)
(* Python strings are sequences of one-character strings, so that string   *)
(* formatting, concatenation and substring tests are computed, not assumed.*)
(***************************************************************************)
EXTENDS Integers, Sequences, FiniteSets, TLC

VARIABLES
    inst,        \* FittingTool instance attributes (attribute name -> value), empty before __init__
    ctor_args,   \* arguments handed to FittingTool.__init__ (and the environment it reads)
    cpc,         \* "new" before __init__ has run, "done" after it returned or raised
    ctor_exc,    \* exception raised by __init__ (type "" if none)
    reg_vars,    \* FittingTool._vars : name -> state of that RooRealVar's value
    reg_pdfs,    \* FittingTool._pdfs : name -> the PDF (the names of its parameters)
    reg_data,    \* FittingTool._data : name -> kind of the dataset object
    fpc,         \* position inside FittingTool.fit: "idle", "loop", "report"
    fit,         \* locals of the running fit call (and counters of what it did)
    ft_out,      \* outcome of the last FittingTool method call: op, exception, return, printed report, what was drawn
    history      \* the make and load calls that have returned on the instance: <<method, argument>>

ftVars == <<inst, ctor_args, cpc, ctor_exc, reg_vars, reg_pdfs, reg_data, fpc, fit, ft_out, history>>

VARIABLES
    events,      \* the events of the input tree: sample id, genWeight, the cuts each one fails
    rdf,         \* the dataframe the caller holds: surviving events, defined columns, how w is defined
    lists,       \* the branch lists alive in the process: the caller's and each function's default
    dicts,       \* the cut-flow dictionaries alive in the process, likewise
    cur_b,       \* which list the caller holds (the one returned by the latest call)
    cur_d,       \* which dictionary the caller holds
    ncalls,      \* number of calls of filter_rdf and the rdf_def functions made so far
    acf_log,     \* the arguments of the add_cut_flow calls that returned, in order
    last,        \* what the latest call was given and what it did
    proc         \* the Python process: whether rdfdefines is imported, ROOT's implicit multithreading

cutVars == <<events, rdf, lists, dicts, cur_b, cur_d, ncalls, acf_log, last, proc>>

vars == <<ftVars, cutVars>>

None == "None"

\* ------------------------------------------------------------------------
\* Bounds of the model
\* ------------------------------------------------------------------------
MaxTries == 3

\* ------------------------------------------------------------------------
\* Python strings
\* ------------------------------------------------------------------------
DigitChar(d) == CASE d = 0 -> "0" [] d = 1 -> "1" [] d = 2 -> "2" [] d = 3 -> "3"
                  [] d = 4 -> "4" [] d = 5 -> "5" [] d = 6 -> "6" [] d = 7 -> "7"
                  [] d = 8 -> "8" [] d = 9 -> "9"

RECURSIVE IntStr(_)
\* str(n) / f'{n}' for an int n
IntStr(n) == IF n < 0 THEN <<"-">> \o IntStr(0 - n)
             ELSE IF n < 10 THEN <<DigitChar(n)>>
             ELSE IntStr(n \div 10) \o <<DigitChar(n % 10)>>

\* Python's  sub in s  for strings
Contains(s, sub) ==
    \E i \in 1..(Len(s) - Len(sub) + 1) : SubSeq(s, i, i + Len(sub) - 1) = sub

S_MC_SIG   == <<"M","C","_","S","I","G">>
S_MC_BKG0  == <<"M","C","_","B","K","G","0">>
S_MC_BKG1  == <<"M","C","_","B","K","G","1">>
S_MC_BKG2  == <<"M","C","_","B","K","G","2">>
S_MC_BKG3  == <<"M","C","_","B","K","G","3">>
S_DATA_BKG == <<"D","A","T","A","_","B","K","G">>
S_BKG      == <<"B","K","G">>
S_gaussian == <<"g","a","u","s","s","i","a","n">>
S_sig_     == <<"s","i","g","_">>
S_bkg_     == <<"b","k","g","_">>
S_GF       == <<"G","F">>
S_RooDataSet  == <<"R","o","o","D","a","t","a","S","e","t">>
S_RooDataHist == <<"R","o","o","D","a","t","a","H","i","s","t">>
U == <<"_">>

\* the option list written out in loadRooDataSet, loadRooDataHist and fit
SampOptions == {S_MC_SIG, S_MC_BKG0, S_MC_BKG1, S_MC_BKG2, S_MC_BKG3, S_DATA_BKG}

\* d[k] = v on a dict modelled as a function
DictSet(d, k, v) == [x \in (DOMAIN d) \cup {k} |-> IF x = k THEN v ELSE d[x]]

EmptyDict == [x \in {} |-> None]


\* ------------------------------------------------------------------------
\* FittingTool.__init__
\* ------------------------------------------------------------------------
\* A Python value: its type tag t, its numeric value n (numbers), its text s (str)
PyInt(n)     == [t |-> "int",      n |-> n, s |-> <<>>]
PyFloat(n)   == [t |-> "float",    n |-> n, s |-> <<>>]
PyBool(n)    == [t |-> "bool",     n |-> n, s |-> <<>>]
PyStr(s)     == [t |-> "str",      n |-> 0, s |-> s]
PyNone       == [t |-> "NoneType", n |-> 0, s |-> <<>>]
\* decimal.Decimal(n): not an int or float, but ordered against both
PyDecimal(n) == [t |-> "Decimal",  n |-> n, s |-> <<>>]

NoExc == [type |-> "", arg |-> ""]
Exc(type, arg) == [type |-> type, arg |-> arg]

\* type(v) is int
TypeIsInt(v) == v.t = "int"
\* type(v) is str
TypeIsStr(v) == v.t = "str"
\* isinstance(v, (int, float)); bool is a subclass of int
IsIntOrFloat(v) == v.t \in {"int", "float", "bool"}

\* whether Python's  a < b  is defined (otherwise the comparison raises TypeError)
LtDefined(a, b) ==
    \/ a.t \in {"int", "float", "bool", "Decimal"} /\ b.t \in {"int", "float", "bool", "Decimal"}
    \/ a.t = "str" /\ b.t = "str"

\* variant: the check of VARTITLE is left out
InitChecks_noVartitle(a) ==
    IF ~TypeIsInt(a.YEAR) THEN Exc("TypeError", "YEAR")
    ELSE IF ~TypeIsStr(a.CAT) THEN Exc("TypeError", "CAT")
    ELSE IF ~TypeIsStr(a.VERS) THEN Exc("TypeError", "VERS")
    ELSE IF ~TypeIsStr(a.VARNAME) THEN Exc("TypeError", "VARNAME")
    ELSE IF ~IsIntOrFloat(a.VARLOW) THEN Exc("TypeError", "VARLOW")
    ELSE IF ~IsIntOrFloat(a.VARLOW) THEN Exc("TypeError", "VARHIGH")
    ELSE IF ~LtDefined(a.VARLOW, a.VARHIGH) THEN Exc("TypeError", "<")
    ELSE IF ~(a.VARLOW.n < a.VARHIGH.n) THEN Exc("ValueError", "VARLOW")
    ELSE NoExc

\* variant: line 44 lets equal bounds through (VARLOW <= VARHIGH)
InitChecks_allowEqual(a) ==
    IF ~TypeIsInt(a.YEAR) THEN Exc("TypeError", "YEAR")
    ELSE IF ~TypeIsStr(a.CAT) THEN Exc("TypeError", "CAT")
    ELSE IF ~TypeIsStr(a.VERS) THEN Exc("TypeError", "VERS")
    ELSE IF ~TypeIsStr(a.VARNAME) THEN Exc("TypeError", "VARNAME")
    ELSE IF ~TypeIsStr(a.VARTITLE) THEN Exc("TypeError", "VARTITLE")
    ELSE IF ~IsIntOrFloat(a.VARLOW) THEN Exc("TypeError", "VARLOW")
    ELSE IF ~IsIntOrFloat(a.VARLOW) THEN Exc("TypeError", "VARHIGH")
    ELSE IF ~LtDefined(a.VARLOW, a.VARHIGH) THEN Exc("TypeError", "<")
    ELSE IF ~(a.VARLOW.n <= a.VARHIGH.n) THEN Exc("ValueError", "VARLOW")
    ELSE NoExc

\* the raise statements of lines 37-44, in order; NoExc if none fires
InitChecks(a) ==
    IF ~TypeIsInt(a.YEAR) THEN Exc("TypeError", "YEAR")
    ELSE IF ~TypeIsStr(a.CAT) THEN Exc("TypeError", "CAT")
    ELSE IF ~TypeIsStr(a.VERS) THEN Exc("TypeError", "VERS")
    ELSE IF ~TypeIsStr(a.VARNAME) THEN Exc("TypeError", "VARNAME")
    ELSE IF ~TypeIsStr(a.VARTITLE) THEN Exc("TypeError", "VARTITLE")
    ELSE IF ~IsIntOrFloat(a.VARLOW) THEN Exc("TypeError", "VARLOW")
    ELSE IF ~IsIntOrFloat(a.VARLOW) THEN Exc("TypeError", "VARHIGH")
    ELSE IF ~LtDefined(a.VARLOW, a.VARHIGH) THEN Exc("TypeError", "<")
    ELSE IF ~(a.VARLOW.n < a.VARHIGH.n) THEN Exc("ValueError", "VARLOW")
    ELSE NoExc

\* lines 46-47: the seven attributes taken from the arguments
ArgAttrs(a) ==
    [YEAR |-> a.YEAR, CAT |-> a.CAT, VERSION |-> a.VERS, VARNAME |-> a.VARNAME,
     VARTITLE |-> a.VARTITLE, VARLOW |-> a.VARLOW, VARHIGH |-> a.VARHIGH]

\* lines 49-66: the attributes of a fully constructed instance
FullAttrs(a) ==
    [YEAR |-> a.YEAR, CAT |-> a.CAT, VERSION |-> a.VERS, VARNAME |-> a.VARNAME,
     VARTITLE |-> a.VARTITLE, VARLOW |-> a.VARLOW, VARHIGH |-> a.VARHIGH,
     x |-> a.VARNAME.s,
     varsfx |-> IntStr(a.YEAR.n) \o U \o a.CAT.s,
     pdfkeys |-> [k \in {S_sig_ \o S_gaussian, S_bkg_ \o S_gaussian} |->
                    k \o U \o IntStr(a.YEAR.n) \o U \o a.CAT.s]]

Constructed(i) == "pdfkeys" \in DOMAIN i

\* FittingTool.__init__(YEAR, CAT, VERS, VARNAME, VARTITLE, VARLOW, VARHIGH)
\* bind: whether ROOT.RooRealVar accepts the range arguments it is handed; the
\* binding takes int and float, a value of another type may be converted or refused.
Construct ==
    /\ cpc = "new"
    /\ cpc' = "done"
    /\ \E bind \in BOOLEAN :
        LET e == InitChecks(ctor_args) IN
        IF e # NoExc
        THEN /\ bind
             /\ ctor_exc' = e
             /\ inst' = inst
        ELSE IF ~IsIntOrFloat(ctor_args.VARHIGH) /\ ~bind
        THEN /\ ctor_exc' = Exc("TypeError", "RooRealVar")
             /\ inst' = ArgAttrs(ctor_args)
        ELSE IF ~ctor_args.HRARE_DIR
        THEN /\ bind
             /\ ctor_exc' = Exc("KeyError", "HRARE_DIR")
             /\ inst' = [k \in {"YEAR", "CAT", "VERSION", "VARNAME", "VARTITLE",
                                  "VARLOW", "VARHIGH", "x"} |-> FullAttrs(ctor_args)[k]]
        ELSE /\ bind
             /\ ctor_exc' = NoExc
             /\ inst' = FullAttrs(ctor_args)
    /\ UNCHANGED <<cutVars, history, ctor_args, reg_vars, reg_pdfs, reg_data, fpc, fit, ft_out>>


\* ------------------------------------------------------------------------
\* FittingTool: registries
\* ------------------------------------------------------------------------
S_sig_gauss_mu    == <<"s","i","g","_","g","a","u","s","s","_","m","u","_">>
S_sig_gauss_sigma == <<"s","i","g","_","g","a","u","s","s","_","s","i","g","m","a","_">>
S_bkg_gauss_mu    == <<"b","k","g","_","g","a","u","s","s","_","m","u","_">>
S_bkg_gauss_sigma == <<"b","k","g","_","g","a","u","s","s","_","s","i","g","m","a","_">>

\* report: the lines printed by the match statement of fit; drawn: the datasets and
\* PDFs plot put on the frame; saved: whether plot wrote the canvas to a file
Out(op, exc, ret, report) ==
    [op |-> op, exc |-> exc, ret |-> ret, report |-> report, drawn |-> {}, saved |-> FALSE]
NoRet == -99

\* the body shared by makeSignalPDF (kind = sig_) and makeBackgroundPDF (kind = bkg_)
MakePDF(op, kind, mu_pfx, sigma_pfx, pdf_type) ==
    /\ Constructed(inst)
    /\ fpc = "idle"
    /\ IF pdf_type = S_gaussian
       THEN LET pdf_name   == inst.pdfkeys[kind \o pdf_type]
                mu_name    == mu_pfx \o inst.varsfx
                sigma_name == sigma_pfx \o inst.varsfx
            IN /\ reg_vars' = DictSet(DictSet(reg_vars, mu_name, "initial"), sigma_name, "initial")
               /\ reg_pdfs' = DictSet(reg_pdfs, pdf_name, [mu |-> mu_name, sigma |-> sigma_name])
               /\ ft_out' = Out(op, NoExc, NoRet, <<>>)
               /\ history' = history \cup {<<op, pdf_type>>}
       ELSE /\ ft_out' = Out(op, Exc("ValueError", "pdf_type"), NoRet, <<>>)
            /\ UNCHANGED <<reg_vars, reg_pdfs, history>>
    /\ UNCHANGED <<cutVars, inst, ctor_args, cpc, ctor_exc, reg_data, fpc, fit>>

makeSignalPDF(pdf_type) ==
    MakePDF("makeSignalPDF", S_sig_, S_sig_gauss_mu, S_sig_gauss_sigma, pdf_type)

\* variant: the background PDF is registered under the signal names
makeBackgroundPDF_sigNames(pdf_type) ==
    MakePDF("makeBackgroundPDF", S_sig_, S_sig_gauss_mu, S_sig_gauss_sigma, pdf_type)

makeBackgroundPDF(pdf_type) ==
    MakePDF("makeBackgroundPDF", S_bkg_, S_bkg_gauss_mu, S_bkg_gauss_sigma, pdf_type)

\* variant: samp is tested before the column
LoadData_sampFirst(op, pfx, hascol, samp) ==
    /\ Constructed(inst)
    /\ fpc = "idle"
    /\ IF samp \notin SampOptions
       THEN /\ ft_out' = Out(op, Exc("ValueError", "samp"), NoRet, <<>>)
            /\ UNCHANGED <<reg_data, history>>
       ELSE IF ~hascol
       THEN /\ ft_out' = Out(op, Exc("KeyError", "VARNAME"), NoRet, <<>>)
            /\ UNCHANGED <<reg_data, history>>
       ELSE LET name == pfx \o U \o samp \o U \o IntStr(inst.YEAR.n) \o U \o inst.CAT.s
            IN /\ reg_data' = DictSet(reg_data, name, pfx)
               /\ ft_out' = Out(op, NoExc, NoRet, <<>>)
               /\ history' = history \cup {<<op, samp>>}
    /\ UNCHANGED <<cutVars, inst, ctor_args, cpc, ctor_exc, reg_vars, reg_pdfs, fpc, fit>>

\* variant: the key is made of samp, YEAR and CAT alone, without the kind of dataset
LoadData_noKind(op, pfx, hascol, samp) ==
    /\ Constructed(inst)
    /\ fpc = "idle"
    /\ IF ~hascol
       THEN /\ ft_out' = Out(op, Exc("KeyError", "VARNAME"), NoRet, <<>>)
            /\ UNCHANGED <<reg_data, history>>
       ELSE IF samp \notin SampOptions
       THEN /\ ft_out' = Out(op, Exc("ValueError", "samp"), NoRet, <<>>)
            /\ UNCHANGED <<reg_data, history>>
       ELSE LET name == samp \o U \o IntStr(inst.YEAR.n) \o U \o inst.CAT.s
            IN /\ reg_data' = DictSet(reg_data, name, pfx)
               /\ ft_out' = Out(op, NoExc, NoRet, <<>>)
               /\ history' = history \cup {<<op, samp>>}
    /\ UNCHANGED <<cutVars, inst, ctor_args, cpc, ctor_exc, reg_vars, reg_pdfs, fpc, fit>>

\* the body shared by loadRooDataSet (pfx = RooDataSet) and loadRooDataHist (pfx = RooDataHist)
\* hascol: whether self.VARNAME is among rdf.GetColumnNames()
LoadData(op, pfx, hascol, samp) ==
    /\ Constructed(inst)
    /\ fpc = "idle"
    /\ IF ~hascol
       THEN /\ ft_out' = Out(op, Exc("KeyError", "VARNAME"), NoRet, <<>>)
            /\ UNCHANGED <<reg_data, history>>
       ELSE IF samp \notin SampOptions
       THEN /\ ft_out' = Out(op, Exc("ValueError", "samp"), NoRet, <<>>)
            /\ UNCHANGED <<reg_data, history>>
       ELSE LET name == pfx \o U \o samp \o U \o IntStr(inst.YEAR.n) \o U \o inst.CAT.s
            IN /\ reg_data' = DictSet(reg_data, name, pfx)
               /\ ft_out' = Out(op, NoExc, NoRet, <<>>)
               /\ history' = history \cup {<<op, samp>>}
    /\ UNCHANGED <<cutVars, inst, ctor_args, cpc, ctor_exc, reg_vars, reg_pdfs, fpc, fit>>

loadRooDataSet(hascol, samp) == LoadData("loadRooDataSet", S_RooDataSet, hascol, samp)

loadRooDataHist(hascol, samp) == LoadData("loadRooDataHist", S_RooDataHist, hascol, samp)


\* ------------------------------------------------------------------------
\* FittingTool.fit
\* ------------------------------------------------------------------------
\* status codes the minimizer (fit_result.status()) may hand back
Statuses == (-1)..6

\* variant: status starts at 0 instead of -1
FitLocals_statusZero(pdf, data, max_tries) ==
    [pdf |-> pdf, data |-> data, max_tries |-> max_tries, drawn |-> 0, ntries |-> 0,
     status |-> 0, ncalls |-> 0, nrand |-> 0, lastMin |-> NoRet,
     sawZero |-> FALSE, calledAfterZero |-> FALSE]

\* locals of fit: the looked-up pdf and data keys, max_tries, the number of values
\* the for loop has drawn from range(1, max_tries+1), ntries, status; and counters
\* of what the call did: minimizer calls, randomizations, the status of the latest
\* minimizer call, whether a call returned 0, whether a call followed one that did.
FitLocals(pdf, data, max_tries) ==
    [pdf |-> pdf, data |-> data, max_tries |-> max_tries, drawn |-> 0, ntries |-> 0,
     status |-> -1, ncalls |-> 0, nrand |-> 0, lastMin |-> NoRet,
     sawZero |-> FALSE, calledAfterZero |-> FALSE]

NoFit == FitLocals(<<>>, <<>>, 0)

\* variant: the test of samp (lines 204-205) is left out
FitCall_noSampCheck(samp, pdf_type, binned, max_tries) ==
    /\ Constructed(inst)
    /\ fpc = "idle"
    /\ LET datakey_pfx == IF binned THEN S_RooDataHist ELSE S_RooDataSet
           data_type   == IF Contains(samp, S_BKG) THEN <<"b","k","g">> ELSE <<"s","i","g">>
           pdfkeyskey  == data_type \o U \o pdf_type
           datakey     == datakey_pfx \o U \o samp \o U \o IntStr(inst.YEAR.n) \o U \o inst.CAT.s
       IN IF pdfkeyskey \notin DOMAIN inst.pdfkeys
          THEN /\ ft_out' = Out("fit", Exc("KeyError", "_pdfkeys"), NoRet, <<>>)
               /\ UNCHANGED <<fpc, fit>>
          ELSE IF inst.pdfkeys[pdfkeyskey] \notin DOMAIN reg_pdfs
          THEN /\ ft_out' = Out("fit", Exc("KeyError", "pdf"), NoRet, <<>>)
               /\ UNCHANGED <<fpc, fit>>
          ELSE IF datakey \notin DOMAIN reg_data
          THEN /\ ft_out' = Out("fit", Exc("KeyError", "data"), NoRet, <<>>)
               /\ UNCHANGED <<fpc, fit>>
          ELSE /\ fit' = FitLocals(inst.pdfkeys[pdfkeyskey], datakey, max_tries)
               /\ fpc' = "loop"
               /\ ft_out' = Out("fit", NoExc, NoRet, <<>>)
    /\ UNCHANGED <<cutVars, history, inst, ctor_args, cpc, ctor_exc, reg_vars, reg_pdfs, reg_data>>

\* variant: the dataset is looked up under RooDataHist whatever binned is
FitCall_histOnly(samp, pdf_type, binned, max_tries) ==
    /\ Constructed(inst)
    /\ fpc = "idle"
    /\ LET datakey_pfx == S_RooDataHist
           data_type   == IF Contains(samp, S_BKG) THEN <<"b","k","g">> ELSE <<"s","i","g">>
           pdfkeyskey  == data_type \o U \o pdf_type
           datakey     == datakey_pfx \o U \o samp \o U \o IntStr(inst.YEAR.n) \o U \o inst.CAT.s
       IN IF samp \notin SampOptions
          THEN /\ ft_out' = Out("fit", Exc("ValueError", "samp"), NoRet, <<>>)
               /\ UNCHANGED <<fpc, fit>>
          ELSE IF pdfkeyskey \notin DOMAIN inst.pdfkeys
          THEN /\ ft_out' = Out("fit", Exc("KeyError", "_pdfkeys"), NoRet, <<>>)
               /\ UNCHANGED <<fpc, fit>>
          ELSE IF inst.pdfkeys[pdfkeyskey] \notin DOMAIN reg_pdfs
          THEN /\ ft_out' = Out("fit", Exc("KeyError", "pdf"), NoRet, <<>>)
               /\ UNCHANGED <<fpc, fit>>
          ELSE IF datakey \notin DOMAIN reg_data
          THEN /\ ft_out' = Out("fit", Exc("KeyError", "data"), NoRet, <<>>)
               /\ UNCHANGED <<fpc, fit>>
          ELSE /\ fit' = FitLocals(inst.pdfkeys[pdfkeyskey], datakey, max_tries)
               /\ fpc' = "loop"
               /\ ft_out' = Out("fit", NoExc, NoRet, <<>>)
    /\ UNCHANGED <<cutVars, history, inst, ctor_args, cpc, ctor_exc, reg_vars, reg_pdfs, reg_data>>

\* lines 204-220: validation, lookups, loop set-up
FitCall(samp, pdf_type, binned, max_tries) ==
    /\ Constructed(inst)
    /\ fpc = "idle"
    /\ LET datakey_pfx == IF binned THEN S_RooDataHist ELSE S_RooDataSet
           data_type   == IF Contains(samp, S_BKG) THEN <<"b","k","g">> ELSE <<"s","i","g">>
           pdfkeyskey  == data_type \o U \o pdf_type
           datakey     == datakey_pfx \o U \o samp \o U \o IntStr(inst.YEAR.n) \o U \o inst.CAT.s
       IN IF samp \notin SampOptions
          THEN /\ ft_out' = Out("fit", Exc("ValueError", "samp"), NoRet, <<>>)
               /\ UNCHANGED <<fpc, fit>>
          ELSE IF pdfkeyskey \notin DOMAIN inst.pdfkeys
          THEN /\ ft_out' = Out("fit", Exc("KeyError", "_pdfkeys"), NoRet, <<>>)
               /\ UNCHANGED <<fpc, fit>>
          ELSE IF inst.pdfkeys[pdfkeyskey] \notin DOMAIN reg_pdfs
          THEN /\ ft_out' = Out("fit", Exc("KeyError", "pdf"), NoRet, <<>>)
               /\ UNCHANGED <<fpc, fit>>
          ELSE IF datakey \notin DOMAIN reg_data
          THEN /\ ft_out' = Out("fit", Exc("KeyError", "data"), NoRet, <<>>)
               /\ UNCHANGED <<fpc, fit>>
          ELSE /\ fit' = FitLocals(inst.pdfkeys[pdfkeyskey], datakey, max_tries)
               /\ fpc' = "loop"
               /\ ft_out' = Out("fit", NoExc, NoRet, <<>>)
    /\ UNCHANGED <<cutVars, history, inst, ctor_args, cpc, ctor_exc, reg_vars, reg_pdfs, reg_data>>

\* the parameters of the PDF being fitted take the state v
SetParams(pdfkey, v) ==
    [n \in DOMAIN reg_vars |->
        IF n \in {reg_pdfs[pdfkey].mu, reg_pdfs[pdfkey].sigma} THEN v ELSE reg_vars[n]]

\* variant: the loop bound is off by one, range(1, max_tries+2)
LoopHasNext_offByOne(f) == f.drawn <= f.max_tries

\* whether the for loop of line 221 has another value to hand out
LoopHasNext(f) == f.drawn < f.max_tries

\* variant: a status of 1 (covariance made positive definite) also ends the loop
FitAttempt_acceptOne(st) ==
    /\ fpc = "loop"
    /\ fit.drawn < fit.max_tries
    /\ LET ntries == fit.drawn + 1 IN
       /\ fit' = [fit EXCEPT !.drawn = fit.drawn + 1,
                             !.status = st,
                             !.ntries = IF st > 1 THEN ntries + 1 ELSE ntries,
                             !.ncalls = fit.ncalls + 1,
                             !.nrand = IF st > 1 THEN fit.nrand + 1 ELSE fit.nrand,
                             !.lastMin = st,
                             !.sawZero = fit.sawZero \/ st = 0,
                             !.calledAfterZero = fit.calledAfterZero \/ fit.sawZero]
       /\ reg_vars' = SetParams(fit.pdf, IF st > 1 THEN "randomized" ELSE "fitted")
       /\ fpc' = IF st > 1 THEN "loop" ELSE "report"
    /\ UNCHANGED <<cutVars, history, inst, ctor_args, cpc, ctor_exc, reg_pdfs, reg_data, ft_out>>

\* variant: the parameters are left as fitted after the last permitted attempt
FitAttempt_keepLast(st) ==
    /\ fpc = "loop"
    /\ LoopHasNext(fit)
    /\ LET ntries == fit.drawn + 1
           rand   == st # 0 /\ ntries < fit.max_tries
       IN
       /\ fit' = [fit EXCEPT !.drawn = fit.drawn + 1,
                             !.status = st,
                             !.ntries = IF st # 0 THEN ntries + 1 ELSE ntries,
                             !.ncalls = fit.ncalls + 1,
                             !.nrand = IF rand THEN fit.nrand + 1 ELSE fit.nrand,
                             !.lastMin = st,
                             !.sawZero = fit.sawZero \/ st = 0,
                             !.calledAfterZero = fit.calledAfterZero \/ fit.sawZero]
       /\ reg_vars' = SetParams(fit.pdf, IF rand THEN "randomized" ELSE "fitted")
       /\ fpc' = IF st # 0 THEN "loop" ELSE "report"
    /\ UNCHANGED <<cutVars, history, inst, ctor_args, cpc, ctor_exc, reg_pdfs, reg_data, ft_out>>

\* lines 221-235: one pass through the loop body; st is what the minimizer returns
FitAttempt(st) ==
    /\ fpc = "loop"
    /\ LoopHasNext(fit)
    /\ LET ntries == fit.drawn + 1 IN
       /\ fit' = [fit EXCEPT !.drawn = fit.drawn + 1,
                             !.status = st,
                             !.ntries = IF st # 0 THEN ntries + 1 ELSE ntries,
                             !.ncalls = fit.ncalls + 1,
                             !.nrand = IF st # 0 THEN fit.nrand + 1 ELSE fit.nrand,
                             !.lastMin = st,
                             !.sawZero = fit.sawZero \/ st = 0,
                             !.calledAfterZero = fit.calledAfterZero \/ fit.sawZero]
       /\ reg_vars' = SetParams(fit.pdf, IF st # 0 THEN "randomized" ELSE "fitted")
       /\ fpc' = IF st # 0 THEN "loop" ELSE "report"
    /\ UNCHANGED <<cutVars, history, inst, ctor_args, cpc, ctor_exc, reg_pdfs, reg_data, ft_out>>

\* line 221: range(1, max_tries+1) is exhausted, the loop ends
FitExhausted ==
    /\ fpc = "loop"
    /\ ~LoopHasNext(fit)
    /\ fpc' = "report"
    /\ UNCHANGED <<cutVars, history, inst, ctor_args, cpc, ctor_exc, reg_vars, reg_pdfs, reg_data, fit, ft_out>>

\* variant: the texts of the cases 2 and 3 are exchanged
StatusReport_swapped(status) ==
    CASE status = 0 -> <<"Likelihood fit has converged.">>
      [] status = 1 -> <<"Covariance was made positive definite.">>
      [] status = 2 -> <<"EDM is above max.">>
      [] status = 3 -> <<"Hessian is invalid.">>
      [] status = 4 -> <<"Reached call limit.">>
      [] status = 5 -> <<"Please investigate.">>
      [] OTHER      -> <<"DISASTER!">>

\* lines 237-251: the lines the match statement prints for a status
StatusReport(status) ==
    CASE status = 0 -> <<"Likelihood fit has converged.">>
      [] status = 1 -> <<"Covariance was made positive definite.">>
      [] status = 2 -> <<"Hessian is invalid.">>
      [] status = 3 -> <<"EDM is above max.">>
      [] status = 4 -> <<"Reached call limit.">>
      [] status = 5 -> <<"Please investigate.">>
      [] OTHER      -> <<"DISASTER!">>

\* lines 236-252: report and return
FitReturn ==
    /\ fpc = "report"
    /\ fpc' = "idle"
    /\ ft_out' = Out("fit", NoExc, fit.status, StatusReport(fit.status))
    /\ fit' = NoFit
    /\ UNCHANGED <<cutVars, history, inst, ctor_args, cpc, ctor_exc, reg_vars, reg_pdfs, reg_data>>

\* ------------------------------------------------------------------------
\* FittingTool.plot
\* ------------------------------------------------------------------------
\* the argument given for mask: its type t; the items of a list or tuple; the text of a str
MaskArg(t, items, s) == [t |-> t, items |-> items, s |-> s]

\* whether  for mask_item in mask  can run
Iterable(mask) == mask.t \in {"list", "tuple", "str"}

\* the values the iteration hands out: the items of a list or tuple, the characters of a str
IterItems(mask) ==
    IF mask.t = "str" THEN [i \in 1..Len(mask.s) |-> PyStr(<<mask.s[i]>>)] ELSE mask.items

\* line 269: all(isinstance(mask_item, str) for mask_item in mask)
AllStr(mask) == \A i \in 1..Len(IterItems(mask)) : IterItems(mask)[i].t = "str"

\* lines 273, 282: any(mask_item in key for mask_item in mask)
Masked(mask, key) == \E i \in 1..Len(IterItems(mask)) : Contains(key, IterItems(mask)[i].s)

S_DATA == <<"D","A","T","A">>

\* lines 272-284: the datasets and PDFs that are put on the frame
PlotDrawn(mask) ==
    {k \in DOMAIN reg_data :
        /\ ~Masked(mask, k)
        /\ \/ Contains(k, S_MC_BKG0) \/ Contains(k, S_MC_BKG1) \/ Contains(k, S_MC_BKG2)
           \/ Contains(k, S_MC_BKG3) \/ Contains(k, S_DATA)}
    \cup {k \in DOMAIN reg_pdfs :
        /\ ~Masked(mask, k)
        /\ Contains(k, <<"b","k","g">>) \/ Contains(k, <<"s","i","g">>)}

\* FittingTool.plot(mask)
plot(mask) ==
    /\ Constructed(inst)
    /\ fpc = "idle"
    /\ IF ~Iterable(mask)
       THEN ft_out' = Out("plot", Exc("TypeError", "not iterable"), NoRet, <<>>)
       ELSE IF ~AllStr(mask)
       THEN ft_out' = Out("plot", Exc("TypeError", "mask"), NoRet, <<>>)
       ELSE ft_out' = [Out("plot", NoExc, NoRet, <<>>) EXCEPT
                          !.drawn = PlotDrawn(mask), !.saved = TRUE]
    /\ UNCHANGED <<cutVars, history, inst, ctor_args, cpc, ctor_exc, reg_vars, reg_pdfs,
                   reg_data, fpc, fit>>

\* ------------------------------------------------------------------------
\* rdfdefines: the cut-flow dictionary
\* ------------------------------------------------------------------------
\* A Python dict keeps insertion order: a sequence of entries [k, v] with distinct keys.
DictLen(d) == Len(d)

DictHas(d, k) == \E i \in 1..Len(d) : d[i].k = k

\* d[k] = v : replaces the value of an existing key in place, otherwise appends
DictPut(d, k, v) ==
    IF DictHas(d, k)
    THEN [i \in 1..Len(d) |-> IF d[i].k = k THEN [k |-> k, v |-> v] ELSE d[i]]
    ELSE Append(d, [k |-> k, v |-> v])

\* variant: the key is the cut string alone, without the ordinal
CutKey_noOrdinal(nth_entry, cut_str) == cut_str

\* f'#{nth_entry} {cut_str}'
CutKey(nth_entry, cut_str) == <<"#">> \o IntStr(nth_entry) \o <<" ">> \o cut_str

\* float(x) for a number x (bool included)
ToFloat(x) == PyFloat(x.n)

\* variant: the test of cut_str (line 65) is left out
AddCutFlowChecks_noStrCheck(cut_str, cut_nentries) ==
    IF ~IsIntOrFloat(cut_nentries) THEN Exc("TypeError", "cut_nentries")
    ELSE NoExc

\* lines 65-66: the exception add_cut_flow raises for its arguments, NoExc if none
AddCutFlowChecks(cut_str, cut_nentries) ==
    IF ~(cut_str.t = "str") THEN Exc("TypeError", "cut_str")
    ELSE IF ~IsIntOrFloat(cut_nentries) THEN Exc("TypeError", "cut_nentries")
    ELSE NoExc

\* lines 67-69: the dictionary add_cut_flow leaves behind (it is changed in place)
AddCutFlowDict(d, cut_str, cut_nentries) ==
    LET nth_entry == DictLen(d)
    IN DictPut(d, CutKey(nth_entry, cut_str.s), ToFloat(cut_nentries))

\* add_cut_flow called with a str and a number, as the selection stages do
Added(d, cut_s, n) == AddCutFlowDict(d, PyStr(cut_s), PyFloat(n))

\* ------------------------------------------------------------------------
\* rdfdefines: events, dataframes, weights
\* ------------------------------------------------------------------------
NEvents == 2
MaxCalls == 3

EventIds == 1..NEvents

\* the selection criteria an event can fail
CutIds == {"trigger", "nJpsi", "PV", "nGoodJets", "closeJet", "user"}

S_w            == <<"w">>
S_trigger      == <<"t","r","i","g","g","e","r">>
S_trigger_user == <<"t","r","i","g","g","e","r","_","u","s","e","r">>
S_nJpsi        == <<"n","J","p","s","i",">","0">>
S_PV           == <<"P","V","_","n","p","v","s","G","o","o","d",">","0">>
S_nGoodJets    == <<"n","G","o","o","d","J","e","t","s",">","=","2">>
S_nCloseJets   == <<"n","C","l","o","s","e","J","e","t","s",">","0">>
S_usercut      == <<"x",">","0">>
S_GF_2018      == <<"G","F","_","2","0","1","8">>

\* the columns rdf_def_sample_meta defines
MetaCols == {"sample", "sample_category", "xsec", "lumi"}

\* the rows of the 'Runs' tree: per row the sample it belongs to and its sums
S_sampleA == <<"s","i","g">>
S_idA     == <<"f","/","s","i","g","/","E","v","e","n","t","s">>

\* the samples of a specification file: the name (the key of the sample), the id
\* RSampleInfo knows it by (file and tree), its metadata. The name of the second
\* contains the name of the first, the id of the third does not carry its name,
\* the events generated for the fourth are more than a C++ float counts exactly.
SampleKinds ==
    { [sample |-> S_sampleA, id |-> S_idA, xsec |-> 1, lumi |-> 2],
      [sample |-> <<"s","i","g","_","e","x","t">>,
       id |-> <<"f","/","s","i","g","_","e","x","t","/","E","v","e","n","t","s">>,
       xsec |-> 1, lumi |-> 4],
      [sample |-> <<"d","y">>, id |-> <<"f","/","x","1","/","E","v","e","n","t","s">>,
       xsec |-> 1, lumi |-> 3],
      [sample |-> <<"b","i","g">>, id |-> <<"f","/","b","i","g","/","E","v","e","n","t","s">>,
       xsec |-> 16777216, lumi |-> 1] }

Runs == << [sample |-> S_sampleA, genEventSumw |-> 1, genEventCount |-> 1],
           [sample |-> S_sampleA, genEventSumw |-> 1, genEventCount |-> 1],
           [sample |-> <<"s","i","g","_","e","x","t">>, genEventSumw |-> 4, genEventCount |-> 4],
           [sample |-> <<"d","y">>, genEventSumw |-> 3, genEventCount |-> 3],
           [sample |-> <<"b","i","g">>, genEventSumw |-> 16777217, genEventCount |-> 16777217] >>

RECURSIVE RunsSumw(_, _)
\* rdf_runs.Filter(sample == name).Sum('genEventSumw') over the first n rows
RunsSumw(name, n) ==
    IF n = 0 THEN 0
    ELSE RunsSumw(name, n - 1) + (IF Runs[n].sample = name THEN Runs[n].genEventSumw ELSE 0)

\* compute_sum_weights(rdf_runs, sample_name)[0]
compute_sum_weights(sample_name) == RunsSumw(sample_name, Len(Runs))

\* the orders in which list(set(...)) may hand out the members of S
Orders(S) == {q \in [1..Cardinality(S) -> S] : \A i, j \in 1..Cardinality(S) : i # j => q[i] # q[j]}

\* a number returned through the C++ type float (24 bits of mantissa, ties to even);
\* written for magnitudes below 2^25, where the floats above 2^24 are the even numbers
F32(x) ==
    LET a  == IF x < 0 THEN -x ELSE x
        lo == (a \div 2) * 2
        r  == IF a <= 16777216 \/ a = lo THEN a
              ELSE IF (lo \div 2) % 2 = 0 THEN lo ELSE lo + 2
    IN IF x < 0 THEN -r ELSE r

RECURSIVE FuncSumWeights(_, _, _)
\* the generated func_sum_weights, a function returning float: the if / else if chain
\* over the names from position i on
FuncSumWeights(names, id, i) ==
    IF i > Len(names) THEN 1
    ELSE IF Contains(id, names[i]) THEN F32(compute_sum_weights(names[i]))
    ELSE FuncSumWeights(names, id, i + 1)

\* a dataframe: the events that survive its filters (rows), the filters themselves,
\* the columns defined on it, how w is defined, the value of sum_weights per event
Frame(rows, filters, cols, wdef, sw) ==
    [rows |-> rows, filters |-> filters, cols |-> cols, wdef |-> wdef, sw |-> sw]

NoSw == [e \in EventIds |-> 1]

\* the dataframe as loaded from the input tree
FreshFrame == Frame(EventIds, {}, {}, "none", NoSw)

\* the column w of event e on frame f: '1.0' for data, xsec*genWeight*lumi/sum_weights otherwise
W(f, e) ==
    IF f.wdef = "data" THEN 1
    ELSE (events[e].xsec * events[e].gw * events[e].lumi) \div f.sw[e]

RECURSIVE SumOver(_, _)
SumOver(f, rows) ==
    IF rows = {} THEN 0
    ELSE LET e == CHOOSE x \in rows : TRUE IN W(f, e) + SumOver(f, rows \ {e})

\* rdf.Sum('w').GetValue()
SumW(f) == SumOver(f, f.rows)

\* variant: the filter is booked on the input tree instead of on the dataframe given
FilterRows_fromTree(rows, cut) == {e \in EventIds : cut \notin events[e].fails}

\* the events of rows that pass the criterion cut
FilterRows(rows, cut) == {e \in rows : cut \notin events[e].fails}

\* rdf.Filter(cut)
Filtered(f, cut) == [f EXCEPT !.rows = FilterRows(f.rows, cut), !.filters = f.filters \cup {cut}]

\* rdf.Define(col, ...) for each column of cs; Define raises if a column exists already
CanDefine(f, cs) == f.cols \cap cs = {}
Defined(f, cs) == [f EXCEPT !.cols = f.cols \cup cs]

\* get_rdf_branches(key): the names listed under key in rdf_hists.json (one stands for them)
get_rdf_branches(key) == <<key>>

\* ------------------------------------------------------------------------
\* rdfdefines: calls of the stage functions
\* ------------------------------------------------------------------------
\* The default values branches=[] and cut_flow_dict={} are created once, when the def
\* statement runs; the list resp. dictionary of function fn lives under the name fn.
\* The caller's own list and dictionary live under "caller".
ListFns == {"rdf_def_sample_meta", "rdf_def_weights", "rdf_def_triggers", "rdf_def_jpsi",
            "rdf_def_muons", "rdf_def_vertex", "rdf_def_jets", "rdf_def_higgs",
            "rdf_def_genpart"}
DictFns == ListFns \ {"rdf_def_sample_meta", "rdf_def_genpart"}

\* how an optional argument is given: the object the caller holds, or left out
ArgModes == {"held", "omit"}

\* the list / dictionary a call of fn works on
BranchesArg(fn, mb) == IF mb = "omit" THEN fn ELSE cur_b
CutFlowArg(fn, md)  == IF md = "omit" THEN fn ELSE cur_d

NoCall == [fn |-> "", omitB |-> FALSE, omitD |-> FALSE, filter |-> TRUE, exc |-> NoExc,
           inRows |-> {}, dlen0 |-> 0, retB |-> "caller", retD |-> "caller",
           addedB |-> <<>>, recorded |-> <<>>]

\* one entry a call wrote: the filters in force on the dataframe it was summed over, the value
Rec(f) == [filters |-> f.filters, v |-> PyFloat(SumW(f))]

\* A call of fn ends. b, d: the list and dictionary it worked on, as it left them
\* (both are changed in place); exc: what it raised; f: the dataframe it returns.
\* A call that raises returns nothing, the caller keeps what it held.
EndCall(fn, mb, md, filter, exc, f, bid, b, did, d, addedB, recorded) ==
    /\ ncalls < MaxCalls
    /\ ncalls' = ncalls + 1
    /\ lists' = [lists EXCEPT ![bid] = b]
    /\ dicts' = [dicts EXCEPT ![did] = d]
    /\ IF exc = NoExc
       THEN /\ rdf' = f
            /\ cur_b' = bid
            /\ cur_d' = did
       ELSE UNCHANGED <<rdf, cur_b, cur_d>>
    /\ last' = [fn |-> fn, omitB |-> (mb = "omit"), omitD |-> (md = "omit"),
                filter |-> filter, exc |-> exc, inRows |-> rdf.rows,
                dlen0 |-> DictLen(dicts[did]), retB |-> bid, retD |-> did,
                addedB |-> addedB, recorded |-> recorded]
    /\ UNCHANGED <<events, acf_log, proc, ftVars>>

\* a call that raises before it has changed anything
Raises(fn, mb, md, filter, exc) ==
    LET bid == BranchesArg(fn, mb)
        did == CutFlowArg(fn, md)
    IN EndCall(fn, mb, md, filter, exc, rdf, bid, lists[bid], did, dicts[did], <<>>, <<>>)

\* a call that returns: it appended addedB to its list and left d in its dictionary
Returns(fn, mb, md, filter, f, addedB, d, recorded) ==
    LET bid == BranchesArg(fn, mb)
        did == CutFlowArg(fn, md)
    IN EndCall(fn, mb, md, filter, NoExc, f, bid, lists[bid] \o addedB, did, d, addedB, recorded)

\* load_functions reads os.environ['HRARE_DIR'], which raises KeyError if the variable is not set
EnvHas_HRARE_DIR == ctor_args.HRARE_DIR
NoEnv == Exc("KeyError", "HRARE_DIR")

\* rdf.Sum('w').GetValue() needs the column w
NoW == Exc("RuntimeError", "w")
Redefined(col) == Exc("RuntimeError", col)

\* filter_rdf(rdf, cut_flow_dict, cut, description, filter)
filter_rdf(cut_s, filter) ==
    LET new_rdf == IF filter THEN Filtered(rdf, "user") ELSE rdf
        d == dicts[cur_d]
    IN IF filter /\ "w" \notin rdf.cols
       THEN EndCall("filter_rdf", "held", "held", filter, NoW, rdf,
                    cur_b, lists[cur_b], cur_d, d, <<>>, <<>>)
       ELSE EndCall("filter_rdf", "held", "held", filter, NoExc, new_rdf,
                    cur_b, lists[cur_b], cur_d,
                    IF filter THEN Added(d, cut_s, SumW(new_rdf)) ELSE d,
                    <<>>, IF filter THEN <<Rec(new_rdf)>> ELSE <<>>)

\* rdf_def_sample_meta(rdf_events, branches)
rdf_def_sample_meta(mb) ==
    LET fn == "rdf_def_sample_meta" IN
    IF ~CanDefine(rdf, MetaCols)
    THEN EndCall(fn, mb, "held", TRUE, Redefined("sample"), rdf,
                 BranchesArg(fn, mb), lists[BranchesArg(fn, mb)], cur_d, dicts[cur_d], <<>>, <<>>)
    ELSE EndCall(fn, mb, "held", TRUE, NoExc, Defined(rdf, MetaCols),
                 BranchesArg(fn, mb),
                 lists[BranchesArg(fn, mb)] \o <<"sample", "sample_category", "xsec", "lumi">>,
                 cur_d, dicts[cur_d],
                 <<"sample", "sample_category", "xsec", "lumi">>, <<>>)

\* variant: genWeight is appended to branches for data as well
rdf_def_weights_alwaysGenWeight(mb, md, data) ==
    LET fn == "rdf_def_weights"
        d  == dicts[CutFlowArg(fn, md)]
    IN
    IF ~data /\ "sample" \notin rdf.cols
    THEN Raises(fn, mb, md, TRUE, Exc("RuntimeError", "sample"))
    ELSE IF ~CanDefine(rdf, {"sum_weights", "w"})
    THEN Raises(fn, mb, md, TRUE, Redefined("sum_weights"))
    ELSE \E sample_names \in Orders({events[e].sample : e \in rdf.rows}) :
         LET sw == [e \in EventIds |->
                      IF data THEN 1 ELSE FuncSumWeights(sample_names, events[e].id, 1)]
             new_rdf == [Defined(rdf, {"sum_weights", "w"}) EXCEPT
                            !.wdef = IF data THEN "data" ELSE "mc", !.sw = sw]
         IN Returns(fn, mb, md, TRUE, new_rdf, <<"sum_weights", "w", "genWeight">>,
                    Added(d, S_w, SumW(new_rdf)), <<Rec(new_rdf)>>)

\* rdf_def_weights(rdf_runs, rdf_events, branches, cut_flow_dict, data)
rdf_def_weights(mb, md, data) ==
    LET fn == "rdf_def_weights"
        d  == dicts[CutFlowArg(fn, md)]
    IN
    IF ~data /\ "sample" \notin rdf.cols
    THEN Raises(fn, mb, md, TRUE, Exc("RuntimeError", "sample"))
    ELSE IF ~CanDefine(rdf, {"sum_weights", "w"})
    THEN Raises(fn, mb, md, TRUE, Redefined("sum_weights"))
    ELSE \E sample_names \in Orders({events[e].sample : e \in rdf.rows}) :
         LET sw == [e \in EventIds |->
                      IF data THEN 1 ELSE FuncSumWeights(sample_names, events[e].id, 1)]
             new_rdf == [Defined(rdf, {"sum_weights", "w"}) EXCEPT
                            !.wdef = IF data THEN "data" ELSE "mc", !.sw = sw]
         IN Returns(fn, mb, md, TRUE, new_rdf,
                    IF data THEN <<"sum_weights", "w">> ELSE <<"sum_weights", "w", "genWeight">>,
                    Added(d, S_w, SumW(new_rdf)), <<Rec(new_rdf)>>)

\* f'{v}' for a Python value
FStr(v) ==
    CASE v.t = "str"   -> v.s
      [] v.t = "int"   -> IntStr(v.n)
      [] v.t = "float" -> IntStr(v.n) \o <<".", "0">>
      [] v.t = "bool"  -> IF v.n = 0 THEN <<"F","a","l","s","e">> ELSE <<"T","r","u","e">>
      [] OTHER         -> <<"N","o","n","e">>

\* variant: every combination with CAT 'GF' is taken as 'GF_2018'
IsGF2018_anyYear(CAT, YEAR) == FStr(CAT) = S_GF

\* match f'{CAT}_{YEAR}': case 'GF_2018'
IsGF2018(CAT, YEAR) == FStr(CAT) \o U \o FStr(YEAR) = S_GF_2018

\* rdf_def_triggers(rdf, CAT, YEAR, branches, cut_flow_dict, filter)
rdf_def_triggers(CAT, YEAR, mb, md, filter) ==
    LET fn == "rdf_def_triggers"
        d  == dicts[CutFlowArg(fn, md)]
    IN
    IF ~IsGF2018(CAT, YEAR)
    THEN Raises(fn, mb, md, filter, Exc("ValueError", "CAT_YEAR"))
    ELSE IF CanDefine(rdf, {"trigger"}) /\ (filter => "w" \in rdf.cols)
    THEN \* the try block runs through
         LET defd    == Defined(rdf, {"trigger"})
             new_rdf == IF filter THEN Filtered(defd, "trigger") ELSE defd
         IN Returns(fn, mb, md, filter, new_rdf, <<"trigger">>,
                    IF filter THEN Added(d, S_trigger, SumW(new_rdf)) ELSE d,
                    IF filter THEN <<Rec(new_rdf)>> ELSE <<>>)
    ELSE \* the try block raised before it changed anything: the except block
         IF ~CanDefine(rdf, {"trigger_user"})
         THEN Raises(fn, mb, md, filter, Redefined("trigger_user"))
         ELSE IF filter /\ "w" \notin rdf.cols
         THEN Raises(fn, mb, md, filter, NoW)
         ELSE LET defd    == Defined(rdf, {"trigger_user"})
                  new_rdf == IF filter THEN Filtered(defd, "trigger") ELSE defd
              IN Returns(fn, mb, md, filter, new_rdf, <<"trigger", "trigger_user">>,
                         IF filter THEN Added(d, S_trigger_user, SumW(new_rdf)) ELSE d,
                         IF filter THEN <<Rec(new_rdf)>> ELSE <<>>)

\* rdf_def_jpsi(rdf, branches, cut_flow_dict, filter)
rdf_def_jpsi(mb, md, filter) ==
    LET fn  == "rdf_def_jpsi"
        bid == BranchesArg(fn, mb)
        did == CutFlowArg(fn, md)
        d   == dicts[did]
        \* line 241: filter_rdf
        flt == IF filter THEN Filtered(rdf, "nJpsi") ELSE rdf
        d1  == IF filter THEN Added(d, S_nJpsi, SumW(flt)) ELSE d
        rec == IF filter THEN <<Rec(flt)>> ELSE <<>>
    IN
    IF ~EnvHas_HRARE_DIR
    THEN Raises(fn, mb, md, filter, NoEnv)
    ELSE IF filter /\ "w" \notin rdf.cols
    THEN Raises(fn, mb, md, filter, NoW)
    ELSE IF ~CanDefine(rdf, {"Jpsi_muon1_muon2_dR"})
    THEN \* line 242 raises after filter_rdf has written to the dictionary
         EndCall(fn, mb, md, filter, Redefined("Jpsi_muon1_muon2_dR"), rdf,
                 bid, lists[bid], did, d1, <<>>, rec)
    ELSE Returns(fn, mb, md, filter, Defined(flt, {"Jpsi_muon1_muon2_dR"}),
                 get_rdf_branches("Jpsi"), d1, rec)

\* rdf_def_muons(rdf, branches, cut_flow_dict, filter)
rdf_def_muons(mb, md, filter) ==
    LET fn == "rdf_def_muons"
    IN Returns(fn, mb, md, filter, rdf, get_rdf_branches("muon"),
               dicts[CutFlowArg(fn, md)], <<>>)

\* rdf_def_vertex(rdf, branches, cut_flow_dict, filter)
rdf_def_vertex(mb, md, filter) ==
    LET fn == "rdf_def_vertex"
        d  == dicts[CutFlowArg(fn, md)]
        new_rdf == IF filter THEN Filtered(rdf, "PV") ELSE rdf
    IN
    IF "w" \notin rdf.cols
    THEN Raises(fn, mb, md, filter, NoW)
    ELSE Returns(fn, mb, md, filter, new_rdf, get_rdf_branches("vertex"),
                 Added(d, S_PV, SumW(new_rdf)), <<Rec(new_rdf)>>)

JetCols == {"goodJets", "nGoodJets", "goodJetPt", "index_CloseFar", "jetClose_pt"}
JetMCCols == {"goodPartonFlavour"}
JetBranches == <<"goodJets", "nGoodJets", "goodJetPt", "goodJetEta", "goodJetPhi",
                 "goodJetMass", "goodJetCvL">>

\* variant: the close-jet filter of line 347 is booked on rdf instead of on new_rdf
rdf_def_jets_closeOnInput(CAT, YEAR, mb, md, data, filter) ==
    LET fn == "rdf_def_jets"
        d  == dicts[CutFlowArg(fn, md)]
        \* lines 321-326
        f1 == IF filter THEN Filtered(rdf, "nGoodJets") ELSE rdf
        d1 == IF filter THEN Added(d, S_nGoodJets, SumW(f1)) ELSE d
        \* lines 327-348
        f2 == IF filter THEN Filtered(rdf, "closeJet") ELSE f1
        d2 == IF filter THEN Added(d1, S_nCloseJets, SumW(f2)) ELSE d1
        \* lines 349-381
        f3 == Defined(f2, IF data THEN JetCols ELSE JetCols \cup JetMCCols)
        added == JetBranches \o get_rdf_branches("jet")
                   \o (IF data THEN <<>>
                       ELSE <<"goodPartonFlavour">> \o get_rdf_branches("jet_mconly"))
    IN
    IF ~EnvHas_HRARE_DIR
    THEN Raises(fn, mb, md, filter, NoEnv)
    ELSE IF ~IsGF2018(CAT, YEAR)
    THEN Raises(fn, mb, md, filter, Exc("ValueError", "CAT_YEAR"))
    ELSE IF ~CanDefine(rdf, JetCols)
    THEN Raises(fn, mb, md, filter, Redefined("goodJets"))
    ELSE IF filter /\ "w" \notin rdf.cols
    THEN Raises(fn, mb, md, filter, NoW)
    ELSE Returns(fn, mb, md, filter, f3, added, d2,
                 IF filter THEN <<Rec(f1), Rec(f2)>> ELSE <<>>)

\* rdf_def_jets(rdf, CAT, YEAR, branches, cut_flow_dict, data, filter)
rdf_def_jets(CAT, YEAR, mb, md, data, filter) ==
    LET fn == "rdf_def_jets"
        d  == dicts[CutFlowArg(fn, md)]
        \* lines 321-326
        f1 == IF filter THEN Filtered(rdf, "nGoodJets") ELSE rdf
        d1 == IF filter THEN Added(d, S_nGoodJets, SumW(f1)) ELSE d
        \* lines 327-348
        f2 == IF filter THEN Filtered(f1, "closeJet") ELSE f1
        d2 == IF filter THEN Added(d1, S_nCloseJets, SumW(f2)) ELSE d1
        \* lines 349-381
        f3 == Defined(f2, IF data THEN JetCols ELSE JetCols \cup JetMCCols)
        added == JetBranches \o get_rdf_branches("jet")
                   \o (IF data THEN <<>>
                       ELSE <<"goodPartonFlavour">> \o get_rdf_branches("jet_mconly"))
    IN
    IF ~EnvHas_HRARE_DIR
    THEN Raises(fn, mb, md, filter, NoEnv)
    ELSE IF ~IsGF2018(CAT, YEAR)
    THEN Raises(fn, mb, md, filter, Exc("ValueError", "CAT_YEAR"))
    ELSE IF ~CanDefine(rdf, JetCols)
    THEN Raises(fn, mb, md, filter, Redefined("goodJets"))
    ELSE IF filter /\ "w" \notin rdf.cols
    THEN Raises(fn, mb, md, filter, NoW)
    ELSE Returns(fn, mb, md, filter, f3, added, d2,
                 IF filter THEN <<Rec(f1), Rec(f2)>> ELSE <<>>)

\* rdf_def_higgs(rdf, branches, cut_flow_dict, filter)
rdf_def_higgs(mb, md, filter) ==
    LET fn == "rdf_def_higgs"
    IN IF ~EnvHas_HRARE_DIR
       THEN Raises(fn, mb, md, filter, NoEnv)
       ELSE IF ~CanDefine(rdf, {"higgs_mass_corr"})
       THEN Raises(fn, mb, md, filter, Redefined("higgs_mass_corr"))
       ELSE Returns(fn, mb, md, filter, Defined(rdf, {"higgs_mass_corr"}),
                    get_rdf_branches("higgs"), dicts[CutFlowArg(fn, md)], <<>>)

\* one name of each of the five groups of columns rdf_def_genpart appends
GenBranches == <<"GenPart_Higgs_idx", "GenPart_HiggsDaughters_pdgId", "gen_JPsi_cand_mass",
                 "gen_dR_muminus_muplus", "gen_muminus_mass">>

\* rdf_def_genpart(rdf, branches)
rdf_def_genpart(mb) ==
    LET fn  == "rdf_def_genpart"
        bid == BranchesArg(fn, mb)
    IN IF ~EnvHas_HRARE_DIR
       THEN EndCall(fn, mb, "held", TRUE, NoEnv, rdf,
                    bid, lists[bid], cur_d, dicts[cur_d], <<>>, <<>>)
       ELSE IF ~CanDefine(rdf, {"GenPart_Higgs_idx"})
       THEN EndCall(fn, mb, "held", TRUE, Redefined("GenPart_Higgs_idx"), rdf,
                    bid, lists[bid], cur_d, dicts[cur_d], <<>>, <<>>)
       ELSE EndCall(fn, mb, "held", TRUE, NoExc, Defined(rdf, {"GenPart_Higgs_idx"}),
                    bid, lists[bid] \o GenBranches, cur_d, dicts[cur_d], GenBranches, <<>>)

\* add_cut_flow(cut_flow_dict, cut_str, cut_nentries), called on the caller's dictionary
add_cut_flow(cut_str, cut_nentries) ==
    LET e == AddCutFlowChecks(cut_str, cut_nentries)
        d == dicts[cur_d]
    IN /\ dicts' = [dicts EXCEPT ![cur_d] =
                       IF e = NoExc THEN AddCutFlowDict(d, cut_str, cut_nentries) ELSE d]
       /\ acf_log' = IF e = NoExc
                     THEN Append(acf_log, [cut_str |-> cut_str, cut_nentries |-> cut_nentries])
                     ELSE acf_log
       /\ last' = [NoCall EXCEPT !.fn = "add_cut_flow", !.exc = e, !.dlen0 = DictLen(d),
                                 !.retB = cur_b, !.retD = cur_d]
       /\ UNCHANGED <<events, rdf, lists, cur_b, cur_d, ncalls, proc, ftVars>>

\* the process: whether rdfdefines has been imported, whether ROOT's implicit
\* multithreading is on, and the calls of ROOT's multithreading switches made so far
Process(loaded, imt, mt_calls) == [loaded |-> loaded, imt |-> imt, mt_calls |-> mt_calls]

\* line 11 has run: the attribute ROOT.EnableImplicitMT was looked up and not called,
\* so the switch stays as it was and no call has been made
Imported(imt) == Process(TRUE, imt, <<>>)

\* import of JPsiCC.analysis.rdfdefines: line 11 and the def statements run. Line 11 is
\* the expression statement ROOT.EnableImplicitMT, an attribute lookup without a call;
\* each def statement creates the default list and dictionary of its function.
import_rdfdefines ==
    /\ ~proc.loaded
    /\ proc' = Imported(proc.imt)
    /\ lists' = [i \in DOMAIN lists |-> IF i \in ListFns THEN <<>> ELSE lists[i]]
    /\ dicts' = [i \in DOMAIN dicts |-> IF i \in DictFns THEN <<>> ELSE dicts[i]]
    /\ UNCHANGED <<events, rdf, cur_b, cur_d, ncalls, acf_log, last, ftVars>>

\* the caller opens another tree and starts new, empty bookkeeping for it
NewFrame ==
    /\ rdf # FreshFrame
    /\ ncalls < MaxCalls
    /\ rdf' = FreshFrame
    /\ lists' = [lists EXCEPT !["caller"] = <<>>]
    /\ dicts' = [dicts EXCEPT !["caller"] = <<>>]
    /\ cur_b' = "caller"
    /\ cur_d' = "caller"
    /\ last' = NoCall
    /\ UNCHANGED <<events, ncalls, acf_log, proc, ftVars>>

\* ------------------------------------------------------------------------
\* Initial values
\* ------------------------------------------------------------------------
\* no FittingTool has been made
NoTool ==
    /\ cpc = "new"
    /\ ctor_exc = NoExc
    /\ inst = <<>>
    /\ reg_vars = EmptyDict
    /\ reg_pdfs = EmptyDict
    /\ reg_data = EmptyDict
    /\ fpc = "idle"
    /\ fit = FitLocals(<<>>, <<>>, 0)
    /\ ft_out = Out("", NoExc, NoRet, <<>>)
    /\ history = {}

\* an event of sample A with genWeight gw that fails the criteria in fails
Event(gw, fails) ==
    [id |-> S_idA, sample |-> S_sampleA, xsec |-> 1, lumi |-> 2, gw |-> gw, fails |-> fails]

\* rdfdefines has just been imported: every default list and dictionary is empty,
\* the caller holds an empty list, an empty dictionary and a freshly loaded dataframe
ModuleLoaded ==
    /\ rdf = FreshFrame
    /\ lists = [i \in {"caller"} \cup ListFns |-> <<>>]
    /\ dicts = [i \in {"caller"} \cup DictFns |-> <<>>]
    /\ cur_b = "caller"
    /\ cur_d = "caller"
    /\ ncalls = 0
    /\ acf_log = <<>>
    /\ last = NoCall
    /\ proc = Imported(FALSE)

\* rdfdefines is not in use
NoFrames == ModuleLoaded /\ events = [e \in EventIds |-> Event(1, {})]

\* ------------------------------------------------------------------------
\* Specification of one FittingTool instance in use
\* ------------------------------------------------------------------------
GoodArgs ==
    [YEAR |-> PyInt(2018), CAT |-> PyStr(S_GF), VERS |-> PyStr(<<"1">>),
     VARNAME |-> PyStr(<<"m">>), VARTITLE |-> PyStr(<<"m">>),
     VARLOW |-> PyInt(0), VARHIGH |-> PyInt(200), HRARE_DIR |-> TRUE]

S_bad == <<"M","C">>
FitSamps == {S_MC_SIG, S_MC_BKG0, S_bad}
PdfTypes == {S_gaussian, <<"c","b">>}
\* max_tries is any int: range(1, max_tries+1) is empty for 0 and for negative values
TriesInputs == (-1)..MaxTries

FitInit ==
    /\ ctor_args = GoodArgs
    /\ cpc = "done"
    /\ ctor_exc = NoExc
    /\ inst = FullAttrs(GoodArgs)
    /\ reg_vars = EmptyDict
    /\ reg_pdfs = EmptyDict
    /\ reg_data = EmptyDict
    /\ fpc = "idle"
    /\ fit = NoFit
    /\ ft_out = Out("__init__", NoExc, NoRet, <<>>)
    /\ history = {}
    /\ NoFrames

FitStep == (\E st \in Statuses : FitAttempt(st)) \/ FitExhausted \/ FitReturn

FitNext ==
    \/ \E t \in PdfTypes : makeSignalPDF(t)
    \/ \E t \in PdfTypes : makeBackgroundPDF(t)
    \/ \E c \in BOOLEAN, sm \in FitSamps : loadRooDataSet(c, sm)
    \/ \E c \in BOOLEAN, sm \in FitSamps : loadRooDataHist(c, sm)
    \/ \E sm \in FitSamps, t \in PdfTypes, b \in BOOLEAN, m \in TriesInputs : FitCall(sm, t, b, m)
    \/ \E st \in Statuses : FitAttempt(st)
    \/ FitExhausted
    \/ FitReturn

FitSpec == FitInit /\ [][FitNext]_vars

\* a running call keeps running: the interpreter executes the loop and the minimizer returns
FitFairSpec == FitSpec /\ WF_vars(FitStep)


\* ------------------------------------------------------------------------
\* Specification of add_cut_flow called on one dictionary
\* ------------------------------------------------------------------------
MaxAdds == 11

\* the (cut_str, cut_nentries) pairs handed to add_cut_flow
AcfInputs == { <<PyStr(S_w), PyInt(3)>>, <<PyStr(S_trigger), PyFloat(2)>>,
               <<PyInt(1), PyFloat(2)>>, <<PyStr(S_w), PyNone>> }

AcfInit == ctor_args = GoodArgs /\ NoTool /\ NoFrames

AcfNext == \E a \in AcfInputs : DictLen(dicts[cur_d]) < MaxAdds /\ add_cut_flow(a[1], a[2])

AcfSpec == AcfInit /\ [][AcfNext]_vars

\* ------------------------------------------------------------------------
\* Specification of a selection chain: every call is handed what the previous returned
\* ------------------------------------------------------------------------
GenWeights == {-1, 1}
FailSets == {{}} \cup {{c} : c \in CutIds}
EventKinds == {Event(gw, fails) : gw \in GenWeights, fails \in FailSets}

\* the event sets are listed once each, not once per order of their events
KindNo(k) == (IF k.gw = 1 THEN 7 ELSE 0)
             + (CASE k.fails = {} -> 0 [] k.fails = {"trigger"} -> 1 [] k.fails = {"nJpsi"} -> 2
                  [] k.fails = {"PV"} -> 3 [] k.fails = {"nGoodJets"} -> 4
                  [] k.fails = {"closeJet"} -> 5 [] OTHER -> 6)
EventSets == {ev \in [EventIds -> EventKinds] :
                \A i, j \in EventIds : i < j => KindNo(ev[i]) <= KindNo(ev[j])}

GF == PyStr(S_GF)
CatYearInputs == {<<GF, PyInt(2018)>>, <<GF, PyInt(2017)>>}

\* the caller has loaded the tree and called rdf_def_sample_meta on it
ChainInit ==
    /\ ctor_args = GoodArgs
    /\ NoTool
    /\ events \in EventSets
    /\ rdf = Defined(FreshFrame, MetaCols)
    /\ lists = [i \in {"caller"} \cup ListFns |-> <<>>]
    /\ dicts = [i \in {"caller"} \cup DictFns |-> <<>>]
    /\ cur_b = "caller"
    /\ cur_d = "caller"
    /\ ncalls = 0
    /\ acf_log = <<>>
    /\ last = NoCall
    /\ proc = Imported(FALSE)

\* the chain goes on while "w" is defined and no call has raised (an exception that
\* is not caught ends the script)
Chaining == "w" \in rdf.cols /\ last.exc = NoExc

\* rdf_def_weights comes first, the selection stages follow in any order
ChainNext ==
    \/ \E data \in BOOLEAN : last.exc = NoExc /\ rdf_def_weights("held", "held", data)
    \/ \E cy \in CatYearInputs, filter \in BOOLEAN :
          Chaining /\ rdf_def_triggers(cy[1], cy[2], "held", "held", filter)
    \/ \E filter \in BOOLEAN : Chaining /\ rdf_def_jpsi("held", "held", filter)
    \/ \E filter \in BOOLEAN : Chaining /\ rdf_def_vertex("held", "held", filter)
    \/ \E cy \in CatYearInputs, data \in BOOLEAN, filter \in BOOLEAN :
          Chaining /\ rdf_def_jets(cy[1], cy[2], "held", "held", data, filter)
    \/ \E filter \in BOOLEAN : Chaining /\ filter_rdf(S_usercut, filter)

ChainSpec == ChainInit /\ [][ChainNext]_vars

\* ------------------------------------------------------------------------
\* Specification of the stage functions called with and without their optional arguments
\* ------------------------------------------------------------------------
DefaultsInit == ctor_args = GoodArgs /\ NoTool /\ NoFrames

DefaultsNext ==
    \/ \E mb \in ArgModes : rdf_def_sample_meta(mb)
    \/ \E mb \in ArgModes, md \in ArgModes : rdf_def_weights(mb, md, TRUE)
    \/ \E mb \in ArgModes, md \in ArgModes : rdf_def_triggers(GF, PyInt(2018), mb, md, TRUE)
    \/ \E mb \in ArgModes, md \in ArgModes : rdf_def_jpsi(mb, md, TRUE)
    \/ \E mb \in ArgModes, md \in ArgModes : rdf_def_muons(mb, md, TRUE)
    \/ \E mb \in ArgModes, md \in ArgModes : rdf_def_vertex(mb, md, TRUE)
    \/ \E mb \in ArgModes, md \in ArgModes : rdf_def_jets(GF, PyInt(2018), mb, md, TRUE, TRUE)
    \/ \E mb \in ArgModes, md \in ArgModes : rdf_def_higgs(mb, md, TRUE)
    \/ \E mb \in ArgModes : rdf_def_genpart(mb)
    \/ NewFrame

DefaultsSpec == DefaultsInit /\ [][DefaultsNext]_vars

\* ------------------------------------------------------------------------
\* Specification of rdf_def_weights on trees of several samples
\* ------------------------------------------------------------------------
\* the tree holds events of any of the samples, each with a generator weight; the
\* trees are listed once each, not once per order of their events (the samples are
\* told apart by their lumi)
WeightsInit ==
    /\ ctor_args = GoodArgs
    /\ NoTool
    /\ ModuleLoaded
    /\ events \in {ev \in [EventIds -> {[id |-> k.id, sample |-> k.sample, xsec |-> k.xsec,
                                          lumi |-> k.lumi, gw |-> gw, fails |-> {}] :
                                            k \in SampleKinds, gw \in GenWeights}] :
                       \A i, j \in EventIds :
                           i < j => 3 * ev[i].lumi + ev[i].gw <= 3 * ev[j].lumi + ev[j].gw}

WeightsNext ==
    \/ rdf_def_sample_meta("held")
    \/ \E mb \in ArgModes, md \in ArgModes, data \in BOOLEAN : rdf_def_weights(mb, md, data)
    \/ NewFrame

WeightsSpec == WeightsInit /\ [][WeightsNext]_vars

\* ------------------------------------------------------------------------
\* Properties of FittingTool.fit
\* ------------------------------------------------------------------------
\* C1: with max_tries >= 1, a running fit has called the minimizer at most max_tries
\* times and never again after a call that returned 0, has called it at least once
\* when the loop is over, and every started call comes back to the caller.
C1_RetryCap ==
    /\ [](fpc # "idle" /\ fit.max_tries >= 1 =>
            /\ fit.ncalls <= fit.max_tries
            /\ ~fit.calledAfterZero
            /\ (fpc = "report" => fit.ncalls >= 1))
    /\ ((fpc # "idle") ~> (fpc = "idle"))

\* the loop has ended at the cap: max_tries >= 2 failing attempts were made
C1_Witness ==
    fpc = "report" /\ fit.max_tries >= 2 /\ fit.ncalls = fit.max_tries /\ fit.status # 0

\* C2: when fit (max_tries >= 1) returns, the returned value is the status of the
\* last minimizer call; it is 0 exactly if some attempt returned 0; when it is not 0,
\* exactly max_tries attempts were made (so it is the status of attempt max_tries).
C2_FinalStatus ==
    [][(fpc = "report" /\ fpc' = "idle" /\ fit.max_tries >= 1) =>
            /\ ft_out'.ret = fit.lastMin
            /\ (ft_out'.ret = 0 <=> fit.sawZero)
            /\ (ft_out'.ret # 0 => fit.ncalls = fit.max_tries /\ fit.drawn = fit.max_tries)]_vars

\* fit has returned a non-zero status to its caller
C2_Witness ==
    fpc = "idle" /\ ft_out.op = "fit" /\ ft_out.exc = NoExc /\ ft_out.ret \in (Statuses \ {0})


\* ------------------------------------------------------------------------
\* Specification of the FittingTool constructor
\* ------------------------------------------------------------------------
S_2018 == <<"2","0","1","8">>
YearInputs == {PyInt(2018), PyBool(1), PyFloat(2018), PyStr(S_2018)}
StrInputs  == {PyStr(S_GF), PyInt(1), PyNone}
RangeInputs == {PyInt(0), PyInt(5), PyFloat(2), PyBool(1), PyStr(<<"5">>), PyNone, PyDecimal(5)}

CtorInit ==
    /\ ctor_args \in [YEAR : YearInputs, CAT : StrInputs, VERS : StrInputs,
                       VARNAME : StrInputs, VARTITLE : StrInputs,
                       VARLOW : RangeInputs, VARHIGH : RangeInputs, HRARE_DIR : BOOLEAN]
    /\ NoTool
    /\ NoFrames

CtorNext == Construct

CtorSpec == CtorInit /\ [][CtorNext]_vars

\* ------------------------------------------------------------------------
\* Properties of the FittingTool constructor
\* ------------------------------------------------------------------------
\* the first argument, in the order YEAR, CAT, VERS, VARNAME, VARTITLE, VARLOW, whose
\* type is not the documented one ("" if there is none); a bool counts as a number
\* and as a value whose type is not int
FirstOffender(a) ==
    IF a.YEAR.t # "int" THEN "YEAR"
    ELSE IF a.CAT.t # "str" THEN "CAT"
    ELSE IF a.VERS.t # "str" THEN "VERS"
    ELSE IF a.VARNAME.t # "str" THEN "VARNAME"
    ELSE IF a.VARTITLE.t # "str" THEN "VARTITLE"
    ELSE IF a.VARLOW.t \notin {"int", "float", "bool"} THEN "VARLOW"
    ELSE ""

\* C9: when one of YEAR, CAT, VERS, VARNAME, VARTITLE, VARLOW has the wrong type, the
\* constructor raises TypeError naming the first such argument and no attribute of
\* the instance has been assigned.
C9_TypeErrorsInOrder ==
    (cpc = "done" /\ FirstOffender(ctor_args) # "") =>
        /\ ctor_exc = Exc("TypeError", FirstOffender(ctor_args))
        /\ DOMAIN inst = {}

\* the constructor has run on arguments of which two have a wrong type
C9_Witness ==
    /\ cpc = "done"
    /\ ctor_args.YEAR.t = "int" /\ ctor_args.CAT.t = "str" /\ ctor_args.VERS.t = "str"
    /\ ctor_args.VARNAME.t = "str"
    /\ ctor_args.VARTITLE.t # "str" /\ ctor_args.VARLOW.t = "NoneType"
    /\ ctor_exc = Exc("TypeError", "VARTITLE")

\* C10: when the other arguments are valid and VARHIGH is not an int or a float,
\* the constructor raises TypeError.
C10_VarhighTypeError ==
    (/\ cpc = "done"
     /\ FirstOffender(ctor_args) = ""
     /\ ctor_args.VARHIGH.t \notin {"int", "float", "bool"}) => ctor_exc.type = "TypeError"


\* C11: when the other arguments have their documented types and VARLOW and VARHIGH
\* are both numbers with VARLOW not strictly smaller than VARHIGH (equal bounds
\* included), the constructor raises ValueError and assigns no attribute; whatever the
\* arguments, such bounds never get past the constructor without an exception, and an
\* instance that holds its bounds holds VARLOW < VARHIGH.
C11_RangeValueError ==
    /\ (/\ cpc = "done"
        /\ IsIntOrFloat(ctor_args.VARLOW) /\ IsIntOrFloat(ctor_args.VARHIGH)
        /\ ~(ctor_args.VARLOW.n < ctor_args.VARHIGH.n))
          => /\ ctor_exc # NoExc
             /\ DOMAIN inst = {}
             /\ (FirstOffender(ctor_args) = "" => ctor_exc = Exc("ValueError", "VARLOW"))
    /\ ("VARLOW" \in DOMAIN inst => inst.VARLOW.n < inst.VARHIGH.n)

\* the constructor has run on otherwise valid arguments with equal bounds
C11_Witness ==
    /\ cpc = "done"
    /\ FirstOffender(ctor_args) = ""
    /\ ctor_args.VARLOW = PyInt(5) /\ ctor_args.VARHIGH = PyInt(5)
    /\ ctor_exc.type = "ValueError"

\* ------------------------------------------------------------------------
\* Properties of the cut flow
\* ------------------------------------------------------------------------
\* the cut-flow dictionary of the chain, and the values of its entries in insertion order
ChainDict == dicts["caller"]
Yield(i) == ChainDict[i].v.n

\* every event has a weight w >= 0
NonNegativeWeights == \A e \in EventIds : W(rdf, e) >= 0

\* C3 (as stated): in a chain that starts with rdf_def_weights, every entry's yield is
\* at most the yield of the entry inserted before it, whatever the weights are.
C3_MonotoneAnyWeights ==
    \A i \in 1..(Len(ChainDict) - 1) : Yield(i + 1) <= Yield(i)

\* C3 (amended): the same, for weights w that are all non-negative.
C3_MonotoneNonNegative ==
    NonNegativeWeights => \A i \in 1..(Len(ChainDict) - 1) : Yield(i + 1) <= Yield(i)

\* a chain over non-negative weights wrote three entries and the yield went down
C3_Witness ==
    /\ NonNegativeWeights
    /\ rdf.wdef = "mc"
    /\ Len(ChainDict) >= 3
    /\ Yield(3) < Yield(1)

RECURSIVE DigitsValue(_)
\* the number a string of decimal digits denotes
DigitsValue(ds) ==
    IF ds = <<>> THEN 0
    ELSE 10 * DigitsValue(SubSeq(ds, 1, Len(ds) - 1))
         + (CHOOSE v \in 0..9 : DigitChar(v) = ds[Len(ds)])

\* the position of the first blank of key k
FirstBlank(k) == CHOOSE i \in 1..Len(k) : k[i] = " " /\ \A j \in 1..(i - 1) : k[j] # " "

\* the ordinal a key carries between its leading '#' and its first blank
Ordinal(k) == DigitsValue(SubSeq(k, 2, FirstBlank(k) - 1))

\* C4: after k add_cut_flow calls that returned, on a dictionary that started empty,
\* there are k entries; entry i is the one call i wrote (nothing was overwritten) and
\* its key carries the ordinal i-1, the number of entries present before that call.
C4_StrictlyOrdered ==
    /\ Len(ChainDict) = Len(acf_log)
    /\ \A i \in 1..Len(ChainDict) :
          /\ ChainDict[i].k[1] = "#"
          /\ \E j \in 1..Len(ChainDict[i].k) : ChainDict[i].k[j] = " "
          /\ \A j \in 2..(FirstBlank(ChainDict[i].k) - 1) :
                ChainDict[i].k[j] \in {DigitChar(v) : v \in 0..9}
          /\ Ordinal(ChainDict[i].k) = i - 1
          /\ SubSeq(ChainDict[i].k, FirstBlank(ChainDict[i].k) + 1, Len(ChainDict[i].k))
                = acf_log[i].cut_str.s
          /\ ChainDict[i].v.n = acf_log[i].cut_nentries.n

\* eleven calls returned, the first two with the same cut string
C4_Witness ==
    /\ Len(acf_log) >= 11
    /\ Len(ChainDict) >= 11
    /\ acf_log[1].cut_str = acf_log[2].cut_str

\* C5: the Nth entry added is stored under 'N.' followed by cut_str, with the value
\* float(cut_nentries).
C5_KeyIsOrdinalDot ==
    \A i \in 1..Len(acf_log) :
        /\ i <= Len(ChainDict)
        /\ ChainDict[i].k = IntStr(i) \o <<".">> \o acf_log[i].cut_str.s
        /\ ChainDict[i].v = PyFloat(acf_log[i].cut_nentries.n)

\* the events that pass every criterion of the set filters
PassingAll(filters) == {e \in EventIds : events[e].fails \cap filters = {}}

\* C6: every value a stage records is the sum of w over exactly the events that pass
\* all the filters in force on the chain at that point, the stage's own included; and
\* that value is what the stage's new dictionary entry holds.
C6_CumulativeYield ==
    \A i \in 1..Len(last.recorded) :
        /\ last.recorded[i].v = PyFloat(SumOver(rdf, PassingAll(last.recorded[i].filters)))
        /\ last.dlen0 + i <= Len(dicts[last.retD])
        /\ dicts[last.retD][last.dlen0 + i].v = last.recorded[i].v

\* rdf_def_jpsi filtered a chain on which the trigger filter had already removed an
\* event that passes the J/psi criterion
C6_Witness ==
    /\ last.fn = "rdf_def_jpsi" /\ last.filter /\ last.exc = NoExc
    /\ Len(last.recorded) = 1
    /\ "trigger" \in rdf.filters
    /\ \E e \in EventIds : events[e].fails = {"trigger"}
    /\ \E e \in EventIds : events[e].fails = {"nJpsi"}

FilteringFns == {"filter_rdf", "rdf_def_triggers", "rdf_def_jpsi", "rdf_def_vertex",
                 "rdf_def_jets"}

\* C7: a call of filter_rdf, rdf_def_triggers, rdf_def_jpsi, rdf_def_vertex or
\* rdf_def_jets with filter=False returns a dataframe with the events of its input and
\* leaves the cut-flow dictionary with the entries it had.
C7_NoFilterNoEntry ==
    (last.fn \in FilteringFns /\ ~last.filter /\ last.exc = NoExc) =>
        /\ rdf.rows = last.inRows
        /\ DictLen(dicts[last.retD]) = last.dlen0

\* C8: a call that leaves out branches returns a list holding only what the call
\* appended; a call that leaves out cut_flow_dict returns a dictionary holding only
\* the entries the call wrote.
C8_DefaultsStartEmpty ==
    (last.fn \in ListFns /\ last.exc = NoExc) =>
        /\ (last.omitB => lists[last.retB] = last.addedB)
        /\ (last.omitD => DictLen(dicts[last.retD]) = Len(last.recorded))

\* ------------------------------------------------------------------------
\* Specification of rdf_def_triggers and rdf_def_jets called with any category and year
\* ------------------------------------------------------------------------
CatArgs  == {GF, PyStr(<<"g","f">>), PyStr(<<"V","B","F">>)}
YearArgs == {PyInt(2018), PyInt(2017), PyStr(S_2018), PyFloat(2018)}

\* the caller has loaded a tree of which one event fails the trigger and has called
\* rdf_def_sample_meta on it; HRARE_DIR may or may not be set in the environment
CatYearInit ==
    /\ ctor_args \in {GoodArgs, [GoodArgs EXCEPT !.HRARE_DIR = FALSE]}
    /\ NoTool
    /\ events = [e \in EventIds |-> Event(1, IF e = 1 THEN {"trigger"} ELSE {})]
    /\ rdf = Defined(FreshFrame, MetaCols)
    /\ lists = [i \in {"caller"} \cup ListFns |-> <<>>]
    /\ dicts = [i \in {"caller"} \cup DictFns |-> <<>>]
    /\ cur_b = "caller"
    /\ cur_d = "caller"
    /\ ncalls = 0
    /\ acf_log = <<>>
    /\ last = NoCall
    /\ proc = Imported(FALSE)

CatYearNext ==
    \/ \E data \in BOOLEAN : rdf_def_weights("held", "held", data)
    \/ \E c \in CatArgs, y \in YearArgs, filter \in BOOLEAN :
          rdf_def_triggers(c, y, "held", "held", filter)
    \/ \E c \in CatArgs, y \in YearArgs, data \in BOOLEAN, filter \in BOOLEAN :
          rdf_def_jets(c, y, "held", "held", data, filter)

CatYearSpec == CatYearInit /\ [][CatYearNext]_vars

\* the step leaves every list, every dictionary and the dataframe as they were
NothingTouched ==
    /\ lists' = lists /\ dicts' = dicts /\ rdf' = rdf /\ cur_b' = cur_b /\ cur_d' = cur_d

\* the step is a call of rdf_def_triggers resp. rdf_def_jets with these arguments
TriggersStep(c, y, f) ==
    last'.fn = "rdf_def_triggers" /\ last'.filter = f /\ rdf_def_triggers(c, y, "held", "held", f)
JetsStep(c, y, data, f) ==
    last'.fn = "rdf_def_jets" /\ last'.filter = f /\ rdf_def_jets(c, y, "held", "held", data, f)

FitCallStep(samp, pdf_type, binned, max_tries) ==
    fpc = "idle" /\ ft_out'.op = "fit" /\ FitCall(samp, pdf_type, binned, max_tries)

\* the max_tries a step of fit was called with: a call that sets up the loop shows it
\* in its locals; a rejected call never reads it, 0 stands for whatever was given
TriesGiven == IF fpc' = "loop" THEN fit'.max_tries ELSE 0

\* the step leaves _vars, _pdfs and _data as they were
RegistriesKept == reg_vars' = reg_vars /\ reg_pdfs' = reg_pdfs /\ reg_data' = reg_data

\* 'sig' or 'bkg', the type of PDF a sample is fitted with
SampType(samp) == IF Contains(samp, S_BKG) THEN <<"b","k","g">> ELSE <<"s","i","g">>

\* a PDF of type pdf_type for the type of sample samp is registered
PdfExists(samp, pdf_type) ==
    (SampType(samp) \o U \o pdf_type \o U \o IntStr(inst.YEAR.n) \o U \o inst.CAT.s)
        \in DOMAIN reg_pdfs

\* the binned resp. unbinned dataset of samp is registered
DataLoaded(samp, binned) ==
    ((IF binned THEN S_RooDataHist ELSE S_RooDataSet)
        \o U \o samp \o U \o IntStr(inst.YEAR.n) \o U \o inst.CAT.s) \in DOMAIN reg_data

\* C13: fit raises ValueError when samp is not an option, otherwise KeyError when no
\* PDF of pdf_type is registered for the sample's type, otherwise KeyError when the
\* dataset is not registered; a rejected call does not enter the fitting loop (no
\* minimizer call, no randomization) and leaves _vars, _pdfs and _data as they were;
\* a call that is not rejected raises nothing and enters the loop.
C13_FitRejects ==
    [][\A sm \in FitSamps, t \in PdfTypes, b \in BOOLEAN :
         FitCallStep(sm, t, b, TriesGiven) =>
            LET rejected == sm \notin SampOptions \/ ~PdfExists(sm, t) \/ ~DataLoaded(sm, b)
            IN /\ ft_out'.exc.type =
                     (IF sm \notin SampOptions THEN "ValueError"
                      ELSE IF ~PdfExists(sm, t) THEN "KeyError"
                      ELSE IF ~DataLoaded(sm, b) THEN "KeyError"
                      ELSE "")
               /\ RegistriesKept
               /\ (rejected => fpc' = "idle" /\ fit' = fit /\ fit'.ncalls = 0 /\ fit'.nrand = 0)
               /\ (~rejected => fpc' = "loop")]_vars

\* fit was rejected for a missing dataset on an instance that holds a PDF and another dataset
C13_Witness ==
    /\ ft_out.op = "fit" /\ ft_out.exc = Exc("KeyError", "data")
    /\ DOMAIN reg_pdfs # {} /\ DOMAIN reg_data # {} /\ DOMAIN reg_vars # {}
    /\ fpc = "idle"

\* ------------------------------------------------------------------------
\* Properties of the registries of FittingTool
\* ------------------------------------------------------------------------
\* the step is the call loadRooDataSet(rdf, samp) resp. loadRooDataHist(rdf, samp);
\* hascol: whether VARNAME is a column of rdf
LoadSetStep(hascol, samp) ==
    fpc = "idle" /\ ft_out'.op = "loadRooDataSet" /\ loadRooDataSet(hascol, samp)
LoadHistStep(hascol, samp) ==
    fpc = "idle" /\ ft_out'.op = "loadRooDataHist" /\ loadRooDataHist(hascol, samp)

\* what C14 says of a load call of the given kind ('RooDataSet', 'RooDataHist')
LoadAsClaimed(kind, hascol, samp) ==
    LET key == kind \o U \o samp \o U \o IntStr(inst.YEAR.n) \o U \o inst.CAT.s
    IN /\ ft_out'.exc.type = (IF ~hascol THEN "KeyError"
                              ELSE IF samp \notin SampOptions THEN "ValueError" ELSE "")
       /\ reg_vars' = reg_vars /\ reg_pdfs' = reg_pdfs
       /\ IF ~hascol \/ samp \notin SampOptions
          THEN reg_data' = reg_data
          ELSE /\ DOMAIN reg_data' = DOMAIN reg_data \cup {key}
               /\ reg_data'[key] = kind
               /\ \A k \in DOMAIN reg_data \ {key} : reg_data'[k] = reg_data[k]

\* C14: a load call raises KeyError when VARNAME is not a column (whatever samp is),
\* otherwise ValueError when samp is not an option, and then leaves _data as it was;
\* otherwise it sets exactly the key kind_samp_YEAR_CAT and leaves every other entry.
C14_LoadErrors ==
    [][\A c \in BOOLEAN, sm \in FitSamps :
         /\ LoadSetStep(c, sm)  => LoadAsClaimed(S_RooDataSet, c, sm)
         /\ LoadHistStep(c, sm) => LoadAsClaimed(S_RooDataHist, c, sm)]_vars

\* loadRooDataHist has returned on an instance that holds another dataset already
C14_Witness ==
    /\ ft_out.op = "loadRooDataHist" /\ ft_out.exc = NoExc
    /\ Cardinality(DOMAIN reg_data) >= 2
    /\ \E k \in DOMAIN reg_data : reg_data[k] = S_RooDataHist

\* the step is the call makeSignalPDF(pdf_type) resp. makeBackgroundPDF(pdf_type)
MakeSigStep(pdf_type) ==
    fpc = "idle" /\ ft_out'.op = "makeSignalPDF" /\ makeSignalPDF(pdf_type)
MakeBkgStep(pdf_type) ==
    fpc = "idle" /\ ft_out'.op = "makeBackgroundPDF" /\ makeBackgroundPDF(pdf_type)

\* what C15 says of a make call for the given type ('sig', 'bkg') of PDF
MakeAsClaimed(ty, pdf_type) ==
    LET sfx  == IntStr(inst.YEAR.n) \o U \o inst.CAT.s
        pdf  == ty \o U \o pdf_type \o U \o sfx
        mu   == ty \o <<"_","g","a","u","s","s","_","m","u","_">> \o sfx
        sig  == ty \o <<"_","g","a","u","s","s","_","s","i","g","m","a","_">> \o sfx
    IN /\ reg_data' = reg_data
       /\ IF pdf_type # S_gaussian
          THEN /\ ft_out'.exc.type = "ValueError"
               /\ reg_vars' = reg_vars /\ reg_pdfs' = reg_pdfs
          ELSE /\ ft_out'.exc = NoExc
               /\ DOMAIN reg_pdfs' = DOMAIN reg_pdfs \cup {pdf}
               /\ DOMAIN reg_vars' = DOMAIN reg_vars \cup {mu, sig}
               /\ reg_pdfs'[pdf] = [mu |-> mu, sigma |-> sig]
               /\ \A k \in DOMAIN reg_pdfs \ {pdf} : reg_pdfs'[k] = reg_pdfs[k]
               /\ \A k \in DOMAIN reg_vars \ {mu, sig} : reg_vars'[k] = reg_vars[k]

\* C15: a make call with a pdf_type other than 'gaussian' raises ValueError and leaves
\* _vars and _pdfs as they were; with 'gaussian' it registers exactly the PDF
\* sig_gaussian_YEAR_CAT resp. bkg_gaussian_YEAR_CAT, built on exactly the two
\* parameters ..._gauss_mu_YEAR_CAT and ..._gauss_sigma_YEAR_CAT it registers.
C15_MakePdf ==
    [][\A t \in PdfTypes :
         /\ MakeSigStep(t) => MakeAsClaimed(<<"s","i","g">>, t)
         /\ MakeBkgStep(t) => MakeAsClaimed(<<"b","k","g">>, t)]_vars

\* makeBackgroundPDF has returned on an instance that holds the signal PDF already
C15_Witness ==
    /\ ft_out.op = "makeBackgroundPDF" /\ ft_out.exc = NoExc
    /\ Cardinality(DOMAIN reg_pdfs) = 2
    /\ Cardinality(DOMAIN reg_vars) = 4

\* ------------------------------------------------------------------------
\* Properties of add_cut_flow's argument checks
\* ------------------------------------------------------------------------
\* the step is the call add_cut_flow(cut_flow_dict, cut_str, cut_nentries)
AddCutFlowStep(cut_str, cut_nentries) ==
    last'.fn = "add_cut_flow" /\ add_cut_flow(cut_str, cut_nentries)

\* C16: add_cut_flow raises TypeError when cut_str is not a str or cut_nentries is
\* not an int or float (a bool is an int), and then every dictionary is as it was;
\* otherwise it raises nothing.
C16_AddCutFlowTypeError ==
    [][\A a \in AcfInputs :
         AddCutFlowStep(a[1], a[2]) =>
            IF a[1].t # "str" \/ a[2].t \notin {"int", "float", "bool"}
            THEN last'.exc.type = "TypeError" /\ dicts' = dicts
            ELSE last'.exc = NoExc]_vars

\* add_cut_flow has raised on a dictionary that already holds two entries
C16_Witness ==
    /\ last.fn = "add_cut_flow" /\ last.exc.type = "TypeError"
    /\ DictLen(dicts[cur_d]) >= 2

\* ------------------------------------------------------------------------
\* Specification of a process that imports rdfdefines and then uses it
\* ------------------------------------------------------------------------
\* rdfdefines is not imported yet; the script that imports it may have switched
\* ROOT's implicit multithreading on before (ROOT starts with it off)
ImportInit ==
    /\ ctor_args = GoodArgs
    /\ NoTool
    /\ events = [e \in EventIds |-> Event(1, {})]
    /\ rdf = FreshFrame
    /\ lists = [i \in {"caller"} \cup ListFns |-> <<>>]
    /\ dicts = [i \in {"caller"} \cup DictFns |-> <<>>]
    /\ cur_b = "caller"
    /\ cur_d = "caller"
    /\ ncalls = 0
    /\ acf_log = <<>>
    /\ last = NoCall
    /\ proc \in {Process(FALSE, imt, <<>>) : imt \in BOOLEAN}

ImportNext ==
    \/ import_rdfdefines
    \/ proc.loaded /\ DefaultsNext

ImportSpec == ImportInit /\ [][ImportNext]_vars

\* C17: once rdfdefines is imported, implicit multithreading is off, the module has
\* called ROOT's disabling switch and has not called the enabling one.
C17_ImplicitMTDisabled ==
    proc.loaded =>
        /\ ~proc.imt
        /\ \E i \in 1..Len(proc.mt_calls) : proc.mt_calls[i] = "DisableImplicitMT"
        /\ \A i \in 1..Len(proc.mt_calls) : proc.mt_calls[i] # "EnableImplicitMT"

\* ------------------------------------------------------------------------
\* Properties of the status fit reports
\* ------------------------------------------------------------------------
\* the documented meaning of a status code
Meaning(code) ==
    IF code = 0 THEN "converged"
    ELSE IF code = 1 THEN "covariance made positive definite"
    ELSE IF code = 2 THEN "Hessian invalid"
    ELSE IF code = 3 THEN "EDM above max"
    ELSE IF code = 4 THEN "call limit reached"
    ELSE IF code = 5 THEN "other"
    ELSE "disaster"

\* the meaning of a printed line
MeaningOfLine(line) ==
    CASE line = "Likelihood fit has converged."          -> "converged"
      [] line = "Covariance was made positive definite." -> "covariance made positive definite"
      [] line = "Hessian is invalid."                    -> "Hessian invalid"
      [] line = "EDM is above max."                      -> "EDM above max"
      [] line = "Reached call limit."                    -> "call limit reached"
      [] line = "Please investigate."                    -> "other"
      [] line = "DISASTER!"                              -> "disaster"
      [] OTHER                                           -> "?"

\* C18: when fit returns, the value returned is the status of the last minimizer call
\* as it was handed back (the initial -1 if there was no call), exactly one line is
\* reported for it, and that line has the documented meaning of the value; no other
\* step of a FittingTool method writes a report.
C18_StatusEnumeration ==
    [][/\ (fpc = "report" /\ fpc' = "idle") =>
            /\ ft_out'.ret = (IF fit.ncalls = 0 THEN -1 ELSE fit.lastMin)
            /\ Len(ft_out'.report) = 1
            /\ MeaningOfLine(ft_out'.report[1]) = Meaning(ft_out'.ret)
       /\ (ft_out' # ft_out /\ ft_out'.report # <<>>) => (fpc = "report" /\ fpc' = "idle")]_vars

\* fit has returned a status above 5, reported as a disaster
C18_Witness ==
    /\ fpc = "idle" /\ ft_out.op = "fit" /\ ft_out.exc = NoExc
    /\ ft_out.ret = 6
    /\ ft_out.report = <<"DISASTER!">>

\* ------------------------------------------------------------------------
\* Specification of plots made from one FittingTool instance
\* ------------------------------------------------------------------------
PlotSamps == {S_MC_SIG, S_MC_BKG0, S_DATA_BKG}

\* [], ['MC_BKG0'], ['DATA', 1], ('DATA',), 'DATA', None
MaskInputs == { MaskArg("list", <<>>, <<>>),
                MaskArg("list", <<PyStr(S_MC_BKG0)>>, <<>>),
                MaskArg("list", <<PyStr(S_DATA), PyInt(1)>>, <<>>),
                MaskArg("tuple", <<PyStr(S_DATA)>>, <<>>),
                MaskArg("str", <<>>, S_DATA),
                MaskArg("NoneType", <<>>, <<>>) }

PlotNext ==
    \/ makeSignalPDF(S_gaussian)
    \/ makeBackgroundPDF(S_gaussian)
    \/ \E sm \in PlotSamps : loadRooDataSet(TRUE, sm)
    \/ \E sm \in PlotSamps : loadRooDataHist(TRUE, sm)
    \/ \E mask \in MaskInputs : plot(mask)

PlotSpec == FitInit /\ [][PlotNext]_vars

\* the argument is a list whose items are all str
IsListOfStr(mask) ==
    mask.t = "list" /\ \A i \in 1..Len(mask.items) : mask.items[i].t = "str"

\* the step is the call plot(mask=mask)
PlotStep(mask) == fpc = "idle" /\ ft_out'.op = "plot" /\ plot(mask)

\* C19: plot called with a mask that is not a list of str raises TypeError and has
\* put nothing on the frame and saved no file.
C19_MaskTypeError ==
    [][\A mask \in MaskInputs :
         (PlotStep(mask) /\ ~IsListOfStr(mask)) =>
            /\ ft_out'.exc.type = "TypeError"
            /\ ft_out'.drawn = {}
            /\ ~ft_out'.saved]_vars

\* ------------------------------------------------------------------------
\* Properties of fit's lookups with respect to the calls made before
\* ------------------------------------------------------------------------
\* the make call that creates the PDF a sample is fitted with, the load call that
\* registers the dataset a binned resp. unbinned fit reads
MakerOf(samp)   == IF Contains(samp, S_BKG) THEN "makeBackgroundPDF" ELSE "makeSignalPDF"
LoaderOf(binned) == IF binned THEN "loadRooDataHist" ELSE "loadRooDataSet"

\* C20: fit(samp, 'gaussian', binned) with samp one of the options gets past its
\* lookups exactly if the make call of the sample's type has returned before with
\* 'gaussian' and the load call of the matching kind has returned before with this samp.
C20_LookupsFollowCalls ==
    [][\A sm \in FitSamps \cap SampOptions, b \in BOOLEAN :
         FitCallStep(sm, S_gaussian, b, TriesGiven) =>
            ((ft_out'.exc = NoExc /\ fpc' = "loop")
               <=> (/\ <<MakerOf(sm), S_gaussian>> \in history
                    /\ <<LoaderOf(b), sm>> \in history))]_vars

\* an unbinned fit of MC_BKG0 got past its lookups on an instance that holds both
\* PDFs and a binned dataset as well
C20_Witness ==
    /\ fpc = "loop"
    /\ fit.data = S_RooDataSet \o U \o S_MC_BKG0 \o U \o IntStr(inst.YEAR.n) \o U \o inst.CAT.s
    /\ <<"makeSignalPDF", S_gaussian>> \in history
    /\ \E sm \in FitSamps : <<"loadRooDataHist", sm>> \in history


\* ------------------------------------------------------------------------
\* Properties of the randomization in FittingTool.fit
\* ------------------------------------------------------------------------
\* the step is one attempt of the running fit: a minimizer call and what follows it
AttemptStep == fpc = "loop" /\ fit'.ncalls = fit.ncalls + 1

\* the parameters of the PDF being fitted all hold v
ParamsHold(rv, v) == rv[reg_pdfs[fit.pdf].mu] = v /\ rv[reg_pdfs[fit.pdf].sigma] = v

\* the attempts of the running fit that returned a non-zero status
FailedAttempts == fit.ncalls - (IF fit.sawZero THEN 1 ELSE 0)

\* an attempt with a non-zero status, the last permitted one included, is followed by
\* a randomization, an attempt with status 0 by none
RandomizedAfterEachFailure ==
    [][AttemptStep =>
         IF fit'.lastMin # 0
         THEN fit'.nrand = fit.nrand + 1 /\ ParamsHold(reg_vars', "randomized")
         ELSE fit'.nrand = fit.nrand /\ ParamsHold(reg_vars', "fitted")]_vars

\* the randomizations of a running fit are as many as its failed attempts
RandomizationsCounted ==
    [][fpc' # "idle" => fit'.nrand = fit'.ncalls - (IF fit'.sawZero THEN 1 ELSE 0)]_vars

\* the step is the return of fit with a non-zero status
FailedReturn == fpc = "report" /\ fpc' = "idle" /\ ft_out'.ret # 0

\* C21 as stated: the parameters are randomized after every attempt whose status is
\* non-zero, the last permitted one included, and never after one whose status is 0;
\* the randomizations are as many as the failed attempts; whenever fit returns a
\* non-zero status the parameters hold randomized values.
C21_RandomizedOnFailedReturn ==
    /\ RandomizedAfterEachFailure
    /\ RandomizationsCounted
    /\ [][FailedReturn => ParamsHold(reg_vars', "randomized")]_vars

\* C21, amended: as above, and when fit returns a non-zero status after at least one
\* attempt (max_tries >= 1) the parameters hold randomized values; with max_tries <= 0
\* no attempt is made and the parameters are what they were before the call.
C21_RandomizedAfterAttempts ==
    /\ RandomizedAfterEachFailure
    /\ RandomizationsCounted
    /\ [][FailedReturn =>
             IF fit.max_tries >= 1
             THEN ParamsHold(reg_vars', "randomized") /\ fit.lastMin # 0
             ELSE reg_vars' = reg_vars /\ fit.nrand = 0]_vars

\* the loop has ended after two or more attempts that all failed, the parameters are
\* randomized although the last minimizer call left a fit result
C21_Witness ==
    /\ fpc = "report" /\ fit.ncalls >= 2 /\ fit.nrand = fit.ncalls
    /\ fit.lastMin # 0 /\ ParamsHold(reg_vars, "randomized")


\* ------------------------------------------------------------------------
\* Properties of FittingTool.fit without attempts
\* ------------------------------------------------------------------------
\* a fit that passed its lookups is running with max_tries <= 0
NoTriesFit == fpc # "idle" /\ fit.max_tries <= 0

\* C22: a fit called with max_tries <= 0 and otherwise valid arguments never calls
\* the minimizer and never randomizes a parameter (no step of it is an attempt, the
\* variables keep their values), and what it returns is the status -1.
C22_NoTriesReturnsMinusOne ==
    /\ [](NoTriesFit => fit.ncalls = 0 /\ fit.nrand = 0 /\ fit.status = -1)
    /\ [][NoTriesFit =>
             /\ ~AttemptStep
             /\ reg_vars' = reg_vars
             /\ (fpc' = "idle" => ft_out'.op = "fit" /\ ft_out'.exc = NoExc /\ ft_out'.ret = -1)]_vars

\* a fit called with a negative max_tries has left its loop; the variables it would
\* fit exist
C22_Witness ==
    /\ fpc = "report" /\ fit.max_tries < 0 /\ fit.status = -1
    /\ reg_pdfs[fit.pdf].mu \in DOMAIN reg_vars


\* ------------------------------------------------------------------------
\* Properties of rdf_def_weights
\* ------------------------------------------------------------------------
\* the step is the call rdf_def_weights(rdf_runs, rdf, branches, cut_flow_dict, data)
\* with branches resp. cut_flow_dict given (held) or left out (omit), and it returns
WeightsStep(mb, md, data) ==
    /\ last'.fn = "rdf_def_weights" /\ last'.exc = NoExc
    /\ last'.omitB = (mb = "omit") /\ last'.omitD = (md = "omit")
    /\ rdf'.wdef = (IF data THEN "data" ELSE "mc")
    /\ rdf_def_weights(mb, md, data)

RECURSIVE SumOfW(_, _, _)
\* the sum over the events of rows of w: 1 for data, xsec*genWeight*lumi/sum_weights otherwise
SumOfW(rows, data, sw) ==
    IF rows = {} THEN 0
    ELSE LET e == CHOOSE x \in rows : TRUE
         IN (IF data THEN 1 ELSE (events[e].xsec * events[e].gw * events[e].lumi) \div sw[e])
            + SumOfW(rows \ {e}, data, sw)

\* the text k ends with the text sfx
EndsWith(k, sfx) ==
    Len(k) >= Len(sfx) /\ SubSeq(k, Len(k) - Len(sfx) + 1, Len(k)) = sfx

\* C23: a call of rdf_def_weights that returns has appended exactly one entry to the
\* cut-flow dictionary, the one of 'w', holding the sum of w over all input events, and
\* has removed no event; with data=True every w is 1 (the entry is the event count)
\* and branches gains 'sum_weights', 'w' but not 'genWeight'; with data=False w is
\* xsec*genWeight*lumi/sum_weights and branches gains 'sum_weights', 'w', 'genWeight'.
C23_WeightsEntry ==
    [][\A mb \in ArgModes, md \in ArgModes, data \in BOOLEAN :
         WeightsStep(mb, md, data) =>
            LET d0 == dicts[CutFlowArg("rdf_def_weights", md)]
                d1 == dicts'[CutFlowArg("rdf_def_weights", md)]
                b0 == lists[BranchesArg("rdf_def_weights", mb)]
                b1 == lists'[BranchesArg("rdf_def_weights", mb)]
            IN /\ Len(d1) = Len(d0) + 1
               /\ SubSeq(d1, 1, Len(d0)) = d0
               /\ EndsWith(d1[Len(d1)].k, <<" ">> \o S_w)
               /\ d1[Len(d1)].v = PyFloat(SumOfW(rdf.rows, data, rdf'.sw))
               /\ rdf'.rows = rdf.rows /\ rdf'.filters = rdf.filters
               /\ \A e \in rdf.rows :
                     W(rdf', e) = IF data THEN 1
                                  ELSE (events[e].xsec * events[e].gw * events[e].lumi)
                                          \div rdf'.sw[e]
               /\ IF data
                  THEN /\ d1[Len(d1)].v = PyFloat(Cardinality(rdf.rows))
                       /\ b1 = b0 \o <<"sum_weights", "w">>
                  ELSE b1 = b0 \o <<"sum_weights", "w", "genWeight">>]_vars

\* rdf_def_weights has returned for simulated events whose weights do not add up to
\* their number, on a list and a dictionary that held entries before
C23_Witness ==
    /\ last.fn = "rdf_def_weights" /\ last.exc = NoExc /\ rdf.wdef = "mc"
    /\ SumW(rdf) # Cardinality(rdf.rows)
    /\ Len(dicts[last.retD]) >= 2 /\ Len(lists[last.retB]) > 3

\* the names of the samples with events on the frame f
NamesOn(f) == {events[e].sample : e \in f.rows}

\* C24: after rdf_def_weights with data=False, sum_weights of an event is the
\* genEventSumw total compute_sum_weights returns for the sample of that event,
\* whatever the sample names are (one may be part of another) and in whatever order
\* they were iterated, and 1 for an event whose sample id matches no name. The total
\* is compared as the float that the column sum_weights can hold.
C24_SumWeightsOfOwnSample ==
    (last.fn = "rdf_def_weights" /\ last.exc = NoExc /\ rdf.wdef = "mc") =>
        \A e \in rdf.rows :
            rdf.sw[e] = IF \E n \in NamesOn(rdf) : Contains(events[e].id, n)
                        THEN F32(compute_sum_weights(events[e].sample))
                        ELSE 1


\* ------------------------------------------------------------------------
\* Specification of one FittingTool instance that is given all six samples
\* ------------------------------------------------------------------------
\* the options for samp in the order of the list of lines 151 and 176
SampList == <<S_MC_SIG, S_MC_BKG0, S_MC_BKG1, S_MC_BKG2, S_MC_BKG3, S_DATA_BKG>>

\* the key a dataset of the given kind ('RooDataSet', 'RooDataHist') is registered under
DataKey(kind, samp) == kind \o U \o samp \o U \o IntStr(inst.YEAR.n) \o U \o inst.CAT.s

\* the caller loads the samples of one kind for the first time in the order of the
\* list, and any sample again at any time
InListOrder(kind, samp) ==
    \A i \in 1..Len(SampList) :
        SampList[i] = samp => \A j \in 1..(i - 1) : DataKey(kind, SampList[j]) \in DOMAIN reg_data

RegistryNext ==
    \/ \E t \in PdfTypes : makeSignalPDF(t)
    \/ \E t \in PdfTypes : makeBackgroundPDF(t)
    \/ \E c \in BOOLEAN, sm \in SampOptions \cup {S_bad} :
          InListOrder(S_RooDataSet, sm) /\ loadRooDataSet(c, sm)
    \/ \E c \in BOOLEAN, sm \in SampOptions \cup {S_bad} :
          InListOrder(S_RooDataHist, sm) /\ loadRooDataHist(c, sm)
    \/ \E sm \in FitSamps, b \in BOOLEAN, m \in 0..1 : FitCall(sm, S_gaussian, b, m)
    \/ \E st \in Statuses : FitAttempt(st)
    \/ FitExhausted
    \/ FitReturn

RegistrySpec == FitInit /\ [][RegistryNext]_vars

\* ------------------------------------------------------------------------
\* Properties of the registries of FittingTool
\* ------------------------------------------------------------------------
\* the step leaves the keys of _vars, _pdfs and _data as they were
SameKeys ==
    /\ DOMAIN reg_vars' = DOMAIN reg_vars
    /\ DOMAIN reg_pdfs' = DOMAIN reg_pdfs
    /\ DOMAIN reg_data' = DOMAIN reg_data

\* the step belongs to a call of fit: the call itself, or a step of the running fit
StepOfFit == fpc # "idle" \/ ft_out'.op = "fit"

\* C25: on one instance, after any sequence of make, load and fit calls, _pdfs has at
\* most 2 entries, _vars at most 4 and _data at most 12; a make or load call that has
\* returned before with the same argument replaces the entry and adds no key; the
\* binned and the unbinned dataset of one samp are registered under two distinct keys;
\* no step of fit adds or removes a key of a registry.
C25_RegistriesKeyedByName ==
    /\ [](/\ Cardinality(DOMAIN reg_pdfs) <= 2
          /\ Cardinality(DOMAIN reg_vars) <= 4
          /\ Cardinality(DOMAIN reg_data) <= 12)
    /\ [](\A sm \in SampOptions :
             (<<"loadRooDataSet", sm>> \in history /\ <<"loadRooDataHist", sm>> \in history)
                => /\ DataKey(S_RooDataSet, sm) # DataKey(S_RooDataHist, sm)
                   /\ {DataKey(S_RooDataSet, sm), DataKey(S_RooDataHist, sm)}
                         \subseteq DOMAIN reg_data
                   /\ reg_data[DataKey(S_RooDataSet, sm)] = S_RooDataSet
                   /\ reg_data[DataKey(S_RooDataHist, sm)] = S_RooDataHist)
    /\ [][/\ \A t \in PdfTypes :
               /\ (<<"makeSignalPDF", t>> \in history /\ MakeSigStep(t)) => SameKeys
               /\ (<<"makeBackgroundPDF", t>> \in history /\ MakeBkgStep(t)) => SameKeys
           /\ \A sm \in SampOptions :
               /\ (<<"loadRooDataSet", sm>> \in history /\ LoadSetStep(TRUE, sm)) => SameKeys
               /\ (<<"loadRooDataHist", sm>> \in history /\ LoadHistStep(TRUE, sm)) => SameKeys
           /\ (StepOfFit => SameKeys /\ reg_pdfs' = reg_pdfs /\ reg_data' = reg_data)]_vars

\* a fit has returned on an instance whose registries are full: both PDFs, their four
\* variables, and the binned and unbinned datasets of all six samples
C25_Witness ==
    /\ fpc = "idle" /\ ft_out.op = "fit" /\ ft_out.ret \in Statuses
    /\ Cardinality(DOMAIN reg_pdfs) = 2
    /\ Cardinality(DOMAIN reg_vars) = 4
    /\ Cardinality(DOMAIN reg_data) = 12

====
